---- MODULE Spec2Model ----
(***************************************************************************)
(* MicroPython driver for the MLX90615 IR temperature sensor.              *)
(*                                                                         *)
(* The model follows src/mlx90615.py (the full driver, with error          *)
(* checking).  A driver call runs from one time.sleep_ms to the next: the   *)
(* action that makes the call runs it up to its first wait, Continue runs  *)
(* it from a wait to the next one or to its return; a call that never      *)
(* waits is one action.  The I2C bus and the sensor behind it are the      *)
(* environment: each call is run against a fault plan that says which      *)
(* transaction of the call (if any) the bus refuses, garbles or the        *)
(* sensor fails to store.  The variable log records the transactions of    *)
(* the call so far, in order, as a bus mock would.                         *)
(***************************************************************************)
EXTENDS Integers, Sequences, FiniteSets, TLC

VARIABLES
    address,    \* self.address, the 7-bit bus address given to __init__
    buf,        \* self.buf, the 3-byte buffer shared by all transactions
    buftype,    \* the type of the object self.buf names: "bytearray" or "bytes"
    mem,        \* the sensor's registers (EEPROM 0x10..0x1F, RAM 0x25..0x27)
    pc,         \* "idle": no call made since the bus record was cleared;
                \* "waiting": the call is inside a time.sleep_ms; "returned"
    ncalls,     \* the number of calls made on the instance so far
    call,       \* the last call: method, arguments, fault plan
    log,        \* the bus transactions of the last call, in order
    result,     \* the outcome of the last call: error chain and value
    rest        \* the rest of the call in progress: the waits ahead, the outcome

vars == <<address, buf, buftype, mem, pc, ncalls, call, log, result, rest>>

----------------------------------------------------------------------------
(* Program constants.                                                      *)

MLX90615_I2C_DEFAULT_ADDR == 91
_REG_SLAVE_I2C_ADDRESS == 16
_REG_PWM_TMIN == 16
_REG_PWM_TRANGE == 17
_REG_CONFIG == 18
_REG_EMISSIVITY == 19
_REG_ID_LOW == 30
_REG_ID_HIGH == 31
_REG_RAW_IR_DATA == 37
_REG_AMBIENT_TEMP == 38
_REG_OBJECT_TEMP == 39
_REG_SLEEP == 198

EepromRegs == 16..31
RamRegs == 37..39
Regs == EepromRegs \cup RamRegs

----------------------------------------------------------------------------
(* Bounds of the model.                                                    *)

\* The number of calls made on one driver instance.
MaxCalls == 2

\* Fault plans name the transaction of a call they strike, 1..MaxTx.  The
\* longest call, set_pwm_tmin_trange with read-back, issues 8 transactions.
MaxTx == 8

----------------------------------------------------------------------------
(* Python's integer operators on naturals.                                 *)

RECURSIVE BitXor(_, _)
BitXor(a, b) ==
    IF a = 0 THEN b
    ELSE IF b = 0 THEN a
    ELSE (((a % 2) + (b % 2)) % 2) + 2 * BitXor(a \div 2, b \div 2)

RECURSIVE BitAnd(_, _)
BitAnd(a, b) ==
    IF a = 0 \/ b = 0 THEN 0
    ELSE ((a % 2) * (b % 2)) + 2 * BitAnd(a \div 2, b \div 2)

RECURSIVE BitOr(_, _)
BitOr(a, b) ==
    IF a = 0 THEN b
    ELSE IF b = 0 THEN a
    ELSE (IF a % 2 = 1 \/ b % 2 = 1 THEN 1 ELSE 0) + 2 * BitOr(a \div 2, b \div 2)

----------------------------------------------------------------------------
(* Checksum unit.                                                          *)

\* The loop body of _crc8 folding in 0x06, a polynomial without its constant term.
Crc8Shift_poly6(crc) ==
    LET s == crc * 2
        t == IF BitAnd(s, 256) # 0 THEN BitXor(s, 6) ELSE s
    IN  BitAnd(t, 255)

\* The loop body of _crc8 testing bit 7 of the shifted value instead of bit 8.
Crc8Shift_bit7(crc) ==
    LET s == crc * 2
        t == IF BitAnd(s, 128) # 0 THEN BitXor(s, 7) ELSE s
    IN  BitAnd(t, 255)

\* One pass of the loop body of _crc8: crc <<= 1; if crc & 0x0100: crc ^= 0x07;
\* crc &= 0xFF.
Crc8Shift(crc) ==
    LET s == crc * 2
        t == IF BitAnd(s, 256) # 0 THEN BitXor(s, 7) ELSE s
    IN  BitAnd(t, 255)

RECURSIVE Crc8Loop(_, _)
Crc8Loop(crc, n) == IF n = 0 THEN crc ELSE Crc8Loop(Crc8Shift(crc), n - 1)

\* The eight passes of the loop of _crc8, for every byte the loop can start from.
Crc8Table == [c \in 0..255 |-> Crc8Loop(c, 8)]

\* _crc8 with the polynomial never folded in: eight plain shifts of a byte.
_crc8_nopoly(icrc, data) == (BitXor(icrc, data) * 256) % 256

\* MLX90615._crc8(icrc, data): crc = icrc ^ data, then the loop.
_crc8(icrc, data) == Crc8Table[BitXor(icrc, data)]

\* The fold of _crc8 from 0 over a byte sequence.
RECURSIVE Crc8Fold(_, _)
Crc8Fold(crc, bytes) ==
    IF bytes = <<>> THEN crc ELSE Crc8Fold(_crc8(crc, Head(bytes)), Tail(bytes))

----------------------------------------------------------------------------
(* The bus and the sensor (environment).                                   *)
(*                                                                         *)
(* A machine m is what a call runs on: the sensor's registers, self.buf,   *)
(* the transactions issued so far, the fault plan of the call and what the *)
(* call left at each of its waits so far.                                  *)
(* An outcome is [m, err, val]: the machine after, the chain of errors     *)
(* raised (outermost first, <<>> when the call returns), the value.        *)

NoFault == [at |-> 0, kind |-> "none", mask |-> 0]

\* "nack":    the bus raises OSError on that transaction
\* "nolatch": the sensor acknowledges a write but does not store it
\* "badlsb", "badmsb", "badpec": that byte of a read response arrives XORed with mask
Faults(positions, kinds, masks) ==
    {NoFault}
      \cup [at : positions, kind : kinds \cap {"nack", "nolatch"}, mask : {0}]
      \cup [at : positions, kind : kinds \cap {"badlsb", "badmsb", "badpec"}, mask : masks]

Machine(plan) ==
    [mem |-> mem, buf |-> buf, buftype |-> buftype, log |-> <<>>, plan |-> plan, waits |-> <<>>]

Ok(m, v) == [m |-> m, err |-> <<>>, val |-> v]
Raise(m, e) == [m |-> m, err |-> e, val |-> 0]

\* One exception of a chain: what was raised, and the register it names (0
\* when it names none, as the OSError of the bus).
\* The driver raises plain Exception objects told apart by their message; the
\* kinds name the messages.  An exception formatted into the message of
\* another follows it in the chain.
Exc(kind, register) == [kind |-> kind, reg |-> register]

\* try: out / except Exception as err: raise Exception("<kind> ... {err}")
Try(out, kind, register) ==
    IF out.err # <<>> THEN Raise(out.m, <<Exc(kind, register)>> \o out.err) ELSE out

\* time.sleep_ms(...): the call stands still; the sensor, self.buf and the bus
\* record are as the statements before the wait left them.
Wait(m) ==
    [m EXCEPT !.waits = Append(@, [mem |-> m.mem, buf |-> m.buf, buftype |-> m.buftype,
                                   log |-> m.log])]

\* time.sleep_ms(...) after a statement, reached when the statement raised nothing.
Slept(out) == IF out.err # <<>> THEN out ELSE [out EXCEPT !.m = Wait(out.m)]

\* The fault striking the next transaction of m, "none" if the plan spares it.
Strike(m) == IF m.plan.at = Len(m.log) + 1 THEN m.plan.kind ELSE "none"

\* The entry the bus record gets for a transaction.
Logged(m, op, a, r, bytes, ok) ==
    Append(m.log, [op |-> op, addr |-> a, reg |-> r, bytes |-> bytes, ok |-> ok])

\* What the sensor at bus address a answers to a read of register r holding
\* word w: the word's two bytes, low first, and the PEC over the whole read frame.
ResponseBytes(a, r, w) ==
    <<w % 256, w \div 256, Crc8Fold(0, <<a * 2, r, a * 2 + 1, w % 256, w \div 256>>)>>

\* The response as the bus delivers it under fault k with mask x.
Garbled(bytes, k, x) ==
    << IF k = "badlsb" THEN BitXor(bytes[1], x) ELSE bytes[1],
       IF k = "badmsb" THEN BitXor(bytes[2], x) ELSE bytes[2],
       IF k = "badpec" THEN BitXor(bytes[3], x) ELSE bytes[3] >>

Response(m, a, r) ==
    Garbled(ResponseBytes(a, r, IF r \in DOMAIN m.mem THEN m.mem[r] ELSE 0),
            Strike(m), m.plan.mask)

\* The read delivered: the response lands in self.buf.
Received(m, a, r, resp) ==
    Ok([m EXCEPT !.buf = resp, !.log = Logged(m, "read", a, r, resp, TRUE)], 0)

\* i2c.readfrom_mem_into(address, register, self.buf)
i2c_readfrom_mem_into(m, a, r) ==
    IF Strike(m) = "nack"
    THEN Raise([m EXCEPT !.log = Logged(m, "read", a, r, <<>>, FALSE)], <<Exc("OSError", 0)>>)
    ELSE Received(m, a, r, Response(m, a, r))

\* The sensor stores a 16-bit word written to one of its EEPROM registers when
\* the frame's PEC is right.
Latch(m, a, r, bytes) ==
    IF /\ r \in EepromRegs
       /\ Len(bytes) = 3
       /\ Strike(m) # "nolatch"
       /\ bytes[3] = Crc8Fold(0, <<a * 2, r, bytes[1], bytes[2]>>)
    THEN [m.mem EXCEPT ![r] = bytes[1] + 256 * bytes[2]]
    ELSE m.mem

\* i2c.writeto_mem(address, register, self.buf)
i2c_writeto_mem(m, a, r) ==
    IF Strike(m) = "nack"
    THEN Raise([m EXCEPT !.log = Logged(m, "write", a, r, m.buf, FALSE)], <<Exc("OSError", 0)>>)
    ELSE Ok([m EXCEPT !.mem = Latch(m, a, r, m.buf),
                      !.log = Logged(m, "write", a, r, m.buf, TRUE)],
            0)

----------------------------------------------------------------------------
(* Bus transaction layer.                                                  *)

\* The CRC read16 computes over the read frame (lines 54-58).
Read16Crc(register, lsb, msb) ==
    _crc8(_crc8(_crc8(_crc8(_crc8(0, address * 2), register), address * 2 + 1), lsb), msb)

\* The CRC write16 computes over the write frame (lines 67-70).
Write16Crc(register, lsb, msb) ==
    _crc8(_crc8(_crc8(_crc8(0, address * 2), register), lsb), msb)

\* read16 after the bus read: lines 49-62 on the bytes in self.buf.
Read16Checked(rd, register, crc) ==
    IF rd.err # <<>> THEN rd
    ELSE IF rd.m.buf[3] = crc
    THEN Ok(rd.m, BitOr(rd.m.buf[1], rd.m.buf[2] * 256))
    ELSE Raise(rd.m, <<Exc("ChecksumMismatch", register)>>)

Read16Unchecked(rd) ==
    IF rd.err # <<>> THEN rd ELSE Ok(rd.m, BitOr(rd.m.buf[1], rd.m.buf[2] * 256))

Read16Result(rd, register, crc_check) ==
    IF rd.err # <<>> THEN rd
    ELSE IF crc_check
    THEN Read16Checked(rd, register, Read16Crc(register, rd.m.buf[1], rd.m.buf[2]))
    ELSE Read16Unchecked(rd)

\* read16 checking the PEC over the write frame only (no read-address byte).
read16_writeframe(m, register, crc_check) ==
    IF crc_check
    THEN Read16Checked(i2c_readfrom_mem_into(m, address, register), register,
                       Write16Crc(register, Response(m, address, register)[1],
                                  Response(m, address, register)[2]))
    ELSE Read16Unchecked(i2c_readfrom_mem_into(m, address, register))

\* MLX90615.read16(register, crc_check)
read16(m, register, crc_check) ==
    Read16Result(i2c_readfrom_mem_into(m, address, register), register, crc_check)

\* Lines 65-71: self.buf filled with lsb, msb and the CRC of the write frame.
Write16Buf(m, register, data) ==
    [m EXCEPT !.buf = <<BitAnd(data, 255), data \div 256,
                        Write16Crc(register, BitAnd(data, 255), data \div 256)>>]

\* Lines 79-81, the read-back compared.  Line 81 formats `err` in the else
\* branch of the try, where no exception was caught and the name is unbound:
\* the statement raises NameError instead of the Exception it builds.
Write16Compared(rb, register, data) ==
    IF rb.err # <<>>
    THEN Raise(rb.m, <<Exc("ReadAfterWriteFailed", register)>> \o rb.err)
    ELSE IF data # rb.val
    THEN Raise(rb.m, <<Exc("NameError", register)>>)
    ELSE Ok(rb.m, 0)

\* Lines 74-81: the read-back after the bus write.
Write16ReadBack(wr, register, data, read_check) ==
    IF wr.err # <<>> \/ ~read_check THEN wr
    ELSE Write16Compared(read16(wr.m, register, TRUE), register, data)

\* The bus write issued once more when the bus refused it.
WriteAgain(wr, register) ==
    IF wr.err # <<>> THEN i2c_writeto_mem(wr.m, address, register) ELSE wr

\* write16 that issues the bus write a second time when the first is refused.
write16_retry(m, register, data, read_check) ==
    Write16ReadBack(Slept(WriteAgain(i2c_writeto_mem(Write16Buf(m, register, data),
                                                     address, register),
                                     register)),
                    register, data, read_check)

\* self.buf with the PEC of the read frame in place of the write frame's.
Write16BufReadFrame(m, register, data) ==
    [m EXCEPT !.buf = <<BitAnd(data, 255), data \div 256,
                        Read16Crc(register, BitAnd(data, 255), data \div 256)>>]

\* write16 whose PEC also folds the read-address byte in, as read16's does.
write16_readframe(m, register, data, read_check) ==
    Write16ReadBack(Slept(i2c_writeto_mem(Write16BufReadFrame(m, register, data),
                                          address, register)),
                    register, data, read_check)

\* MLX90615.write16(register, data, read_check): the bus write, the wait of
\* line 73, the read-back.
write16(m, register, data, read_check) ==
    Write16ReadBack(Slept(i2c_writeto_mem(Write16Buf(m, register, data), address, register)),
                    register, data, read_check)

----------------------------------------------------------------------------
(* Configuration setters.                                                  *)

\* Python's round(num/den) for naturals: to the nearest integer, ties to even.
Round(num, den) ==
    LET q == num \div den
        r == num % den
    IN  IF 2 * r < den THEN q
        ELSE IF 2 * r > den THEN q + 1
        ELSE IF q % 2 = 0 THEN q ELSE q + 1

\* The raw emissivity truncated instead of rounded.
EmissivityRaw_truncated(value) == (value * 16384) \div 100

\* Line 139: e = round((value*0x4000)/100).
EmissivityRaw(value) == Round(value * 16384, 100)

\* One step of a setter, run when the steps before it raised nothing:
\*     try: self.write16(register, data, read_check=eeprom_read_check)
\*          time.sleep_ms(eeprom_write_time)
\*     except Exception as err: raise Exception("Error <phase> EEPROM ... {err}")
\* phase is "ErasePhaseFailed" for the "Error erasing" messages and
\* "ProgramPhaseFailed" for the "Error writing" ones; field is the register
\* the setter is about.
ThenWrite16(prev, register, data, eeprom_read_check, phase, field) ==
    IF prev.err # <<>> THEN prev
    ELSE Try(Slept(write16(prev.m, register, data, eeprom_read_check)), phase, field)

\* The same step, run whatever the steps before it raised.
AlwaysWrite16(prev, register, data, eeprom_read_check, phase, field) ==
    IF prev.err # <<>>
    THEN Raise(write16(prev.m, register, data, eeprom_read_check).m, prev.err)
    ELSE Try(Slept(write16(prev.m, register, data, eeprom_read_check)), phase, field)

\* After a failed update, one more write putting back the word the register
\* held before the call.
Restore(out, register, old) ==
    IF out.err # <<>> THEN Raise(write16(out.m, register, old, FALSE).m, out.err) ELSE out

\* The erase-then-program of one register, undone when it fails.
EraseThenProgram_restoring(m, register, data, eeprom_read_check) ==
    Restore(ThenWrite16(ThenWrite16(Ok(Wait(m), 0), register, 0, eeprom_read_check,
                                    "ErasePhaseFailed", register),
                        register, data, eeprom_read_check, "ProgramPhaseFailed", register),
            register, m.mem[register])

\* The erase and the program write inside one try block: whichever fails is
\* reported by the "Error erasing" message.
EraseThenProgram_onetry(m, register, data, eeprom_read_check) ==
    ThenWrite16(ThenWrite16(Ok(Wait(m), 0), register, 0, eeprom_read_check,
                            "ErasePhaseFailed", register),
                register, data, eeprom_read_check, "ErasePhaseFailed", register)

\* The erase-then-program of one register (lines 140-151, 165-176, 240-251):
\* a wait, the erase and a wait, the program write and a wait.
EraseThenProgram(m, register, data, eeprom_read_check) ==
    ThenWrite16(ThenWrite16(Ok(Wait(m), 0), register, 0, eeprom_read_check,
                            "ErasePhaseFailed", register),
                register, data, eeprom_read_check, "ProgramPhaseFailed", register)

\* set_emissivity overwriting the register directly, with no erase.
set_emissivity_noerase(m, value, eeprom_read_check) ==
    IF (value >= 5) /\ (value <= 100)
    THEN ThenWrite16(Ok(Wait(m), 0), _REG_EMISSIVITY, EmissivityRaw(value), eeprom_read_check,
                     "ProgramPhaseFailed", _REG_EMISSIVITY)
    ELSE Raise(m, <<Exc("InvalidValue", _REG_EMISSIVITY)>>)

\* The range test made on the outcome of the erase.
RangeChecked(erase, value) ==
    IF erase.err = <<>> /\ (value < 5 \/ value > 100)
    THEN Raise(erase.m, <<Exc("InvalidValue", _REG_EMISSIVITY)>>)
    ELSE erase

\* set_emissivity checking the range only after the erase.
set_emissivity_latecheck(m, value, eeprom_read_check) ==
    ThenWrite16(RangeChecked(ThenWrite16(Ok(Wait(m), 0), _REG_EMISSIVITY, 0, eeprom_read_check,
                                         "ErasePhaseFailed", _REG_EMISSIVITY),
                             value),
                _REG_EMISSIVITY, EmissivityRaw(value), eeprom_read_check,
                "ProgramPhaseFailed", _REG_EMISSIVITY)

\* MLX90615.set_emissivity(value, eeprom_read_check)
set_emissivity(m, value, eeprom_read_check) ==
    IF (value >= 5) /\ (value <= 100)
    THEN EraseThenProgram(m, _REG_EMISSIVITY, EmissivityRaw(value), eeprom_read_check)
    ELSE Raise(m, <<Exc("InvalidValue", _REG_EMISSIVITY)>>)

\* set_i2c_address programming the register even when the erase failed.
set_i2c_address_ignore_erase(m, addr, eeprom_read_check) ==
    IF address = 0
    THEN IF (addr >= 8) /\ (addr <= 119)
         THEN AlwaysWrite16(ThenWrite16(Ok(Wait(m), 0), _REG_SLAVE_I2C_ADDRESS, 0,
                                        eeprom_read_check,
                                        "ErasePhaseFailed", _REG_SLAVE_I2C_ADDRESS),
                            _REG_SLAVE_I2C_ADDRESS, BitOr(13568, addr), eeprom_read_check,
                            "ProgramPhaseFailed", _REG_SLAVE_I2C_ADDRESS)
         ELSE Raise(m, <<Exc("AddressOutOfRange", _REG_SLAVE_I2C_ADDRESS)>>)
    ELSE Raise(m, <<Exc("PreconditionFailed", _REG_SLAVE_I2C_ADDRESS)>>)

\* set_i2c_address accepting the range its error message names, 0x01..0x7F.
set_i2c_address_widerange(m, addr, eeprom_read_check) ==
    IF address = 0
    THEN IF (addr >= 1) /\ (addr <= 127)
         THEN EraseThenProgram(m, _REG_SLAVE_I2C_ADDRESS, BitOr(13568, addr), eeprom_read_check)
         ELSE Raise(m, <<Exc("AddressOutOfRange", _REG_SLAVE_I2C_ADDRESS)>>)
    ELSE Raise(m, <<Exc("PreconditionFailed", _REG_SLAVE_I2C_ADDRESS)>>)

\* MLX90615.set_i2c_address(addr, eeprom_read_check)
set_i2c_address(m, addr, eeprom_read_check) ==
    IF address = 0
    THEN IF (addr >= 8) /\ (addr <= 119)
         THEN EraseThenProgram(m, _REG_SLAVE_I2C_ADDRESS, BitOr(13568, addr), eeprom_read_check)
         ELSE Raise(m, <<Exc("AddressOutOfRange", _REG_SLAVE_I2C_ADDRESS)>>)
    ELSE Raise(m, <<Exc("PreconditionFailed", _REG_SLAVE_I2C_ADDRESS)>>)

\* set_pwm_tmin_trange updating field by field: erase and program TMIN, then
\* erase and program TRANGE.
set_pwm_tmin_trange_fieldwise(m, tmin, trange, eeprom_read_check) ==
    IF address = 0
    THEN ThenWrite16(
           ThenWrite16(
             ThenWrite16(
               ThenWrite16(Ok(Wait(m), 0), _REG_PWM_TMIN, 0, eeprom_read_check,
                           "ErasePhaseFailed", _REG_PWM_TMIN),
               _REG_PWM_TMIN, tmin, eeprom_read_check, "ProgramPhaseFailed", _REG_PWM_TMIN),
             _REG_PWM_TRANGE, 0, eeprom_read_check, "ErasePhaseFailed", _REG_PWM_TMIN),
           _REG_PWM_TRANGE, trange, eeprom_read_check, "ProgramPhaseFailed", _REG_PWM_TMIN)
    ELSE Raise(m, <<Exc("PreconditionFailed", _REG_PWM_TMIN)>>)

\* MLX90615.set_pwm_tmin_trange(tmin, trange, eeprom_read_check): one try
\* block erases both registers, a second one programs both.
set_pwm_tmin_trange(m, tmin, trange, eeprom_read_check) ==
    IF address = 0
    THEN ThenWrite16(
           ThenWrite16(
             ThenWrite16(
               ThenWrite16(Ok(Wait(m), 0), _REG_PWM_TMIN, 0, eeprom_read_check,
                           "ErasePhaseFailed", _REG_PWM_TMIN),
               _REG_PWM_TRANGE, 0, eeprom_read_check, "ErasePhaseFailed", _REG_PWM_TMIN),
             _REG_PWM_TMIN, tmin, eeprom_read_check, "ProgramPhaseFailed", _REG_PWM_TMIN),
           _REG_PWM_TRANGE, trange, eeprom_read_check, "ProgramPhaseFailed", _REG_PWM_TMIN)
    ELSE Raise(m, <<Exc("PreconditionFailed", _REG_PWM_TMIN)>>)

\* The config word with bits 0..3 cleared (mask 0xFFF0) before the flags are set.
PwmModeWord_clear4(d, pwm, pwm_fast, pwm_object) ==
    BitOr(BitOr(BitOr(BitAnd(d, 65520),
                      IF ~pwm THEN 1 ELSE 0),
                IF pwm_fast THEN 2 ELSE 0),
          IF ~pwm_object THEN 4 ELSE 0)

\* The config word set_pwm_mode programs, given the word it read (lines 233-239).
PwmModeWord(d, pwm, pwm_fast, pwm_object) ==
    BitOr(BitOr(BitOr(BitAnd(d, 65528),
                      IF ~pwm THEN 1 ELSE 0),
                IF pwm_fast THEN 2 ELSE 0),
          IF ~pwm_object THEN 4 ELSE 0)

\* set_pwm_mode after its read of the config register (lines 232-251).
PwmModeUpdate(rd, pwm, pwm_fast, pwm_object, eeprom_read_check) ==
    IF rd.err # <<>> THEN rd
    ELSE EraseThenProgram(rd.m, _REG_CONFIG, PwmModeWord(rd.val, pwm, pwm_fast, pwm_object),
                          eeprom_read_check)

\* set_pwm_mode reading the config register with the PEC checked only when
\* eeprom_read_check is set.
set_pwm_mode_readflag(m, pwm, pwm_fast, pwm_object, eeprom_read_check) ==
    PwmModeUpdate(Try(read16(m, _REG_CONFIG, eeprom_read_check), "ConfigReadFailed", _REG_CONFIG),
                  pwm, pwm_fast, pwm_object, eeprom_read_check)

\* MLX90615.set_pwm_mode(pwm, pwm_fast, pwm_object, eeprom_read_check)
set_pwm_mode(m, pwm, pwm_fast, pwm_object, eeprom_read_check) ==
    PwmModeUpdate(Try(read16(m, _REG_CONFIG, TRUE), "ConfigReadFailed", _REG_CONFIG),
                  pwm, pwm_fast, pwm_object, eeprom_read_check)

----------------------------------------------------------------------------
(* The driver without error checking, src/mlx90615_no-errors_v0.2.1.py.    *)
(* Its methods raise nothing of their own; an OSError of the bus passes    *)
(* through them unwrapped.                                                 *)

\* MLX90615.read16(register) of the no-errors driver: the PEC is not looked at.
noerrors_read16(m, register) ==
    Read16Unchecked(i2c_readfrom_mem_into(m, address, register))

\* MLX90615.write16(register, data) of the no-errors driver: no read-back, the
\* wait of line 62 after the bus write.
noerrors_write16(m, register, data) ==
    Slept(i2c_writeto_mem(Write16Buf(m, register, data), address, register))

\* The next write16 of a setter and the wait after it, reached when nothing
\* was raised before it.
NoErrorsThenWrite16(prev, register, data) ==
    IF prev.err # <<>> THEN prev ELSE Slept(noerrors_write16(prev.m, register, data))

\* A wait, write16(register, 0x0000) and a wait, write16(register, data) and a wait.
NoErrorsEraseThenProgram(m, register, data) ==
    NoErrorsThenWrite16(NoErrorsThenWrite16(Ok(Wait(m), 0), register, 0), register, data)

\* MLX90615.set_emissivity(value) of the no-errors driver (lines 88-95): the
\* if has no else, a value out of range makes the method return None.
noerrors_set_emissivity(m, value) ==
    IF (value >= 5) /\ (value <= 100)
    THEN NoErrorsEraseThenProgram(m, _REG_EMISSIVITY, EmissivityRaw(value))
    ELSE Ok(m, 0)

\* MLX90615.set_i2c_address(addr) of the no-errors driver (lines 100-108).
noerrors_set_i2c_address(m, addr) ==
    IF address = 0
    THEN IF (addr >= 8) /\ (addr <= 119)
         THEN NoErrorsEraseThenProgram(m, _REG_SLAVE_I2C_ADDRESS, BitOr(13568, addr))
         ELSE Ok(m, 0)
    ELSE Ok(m, 0)

\* MLX90615.read_pwm_tmin() of the no-errors driver (lines 132-133).
noerrors_read_pwm_tmin(m) == noerrors_read16(m, _REG_PWM_TMIN)

\* MLX90615.set_pwm_tmin(tmin) of the no-errors driver (lines 135-141): the if
\* has no else, a nonzero instance address makes the method return None.
noerrors_set_pwm_tmin(m, tmin) ==
    IF address = 0 THEN NoErrorsEraseThenProgram(m, _REG_PWM_TMIN, tmin) ELSE Ok(m, 0)

\* MLX90615.read_pwm_trange() of the no-errors driver (lines 143-144).
noerrors_read_pwm_trange(m) == noerrors_read16(m, _REG_PWM_TRANGE)

\* MLX90615.set_pwm_trange(trange) of the no-errors driver (lines 146-151):
\* made whatever the instance address.
noerrors_set_pwm_trange(m, trange) == NoErrorsEraseThenProgram(m, _REG_PWM_TRANGE, trange)

\* The read-modify-write of the config register: d &= keep; d |= bits; erase;
\* program d.
NoErrorsConfigUpdate(rd, keep, bits) ==
    IF rd.err # <<>> THEN rd
    ELSE NoErrorsEraseThenProgram(rd.m, _REG_CONFIG, BitOr(BitAnd(rd.val, keep), bits))

\* MLX90615.set_pwm_mode(pwm) of the no-errors driver (lines 156-165).
noerrors_set_pwm_mode(m, pwm) ==
    NoErrorsConfigUpdate(noerrors_read16(m, _REG_CONFIG), 65534, IF ~pwm THEN 1 ELSE 0)

\* set_pwm_fast clearing bit 0 along with bit 1 (mask 0xFFFC).
noerrors_set_pwm_fast_clear2(m, pwm_fast) ==
    NoErrorsConfigUpdate(noerrors_read16(m, _REG_CONFIG), 65532, IF pwm_fast THEN 2 ELSE 0)

\* MLX90615.set_pwm_fast(pwm_fast) of the no-errors driver (lines 170-179).
noerrors_set_pwm_fast(m, pwm_fast) ==
    NoErrorsConfigUpdate(noerrors_read16(m, _REG_CONFIG), 65533, IF pwm_fast THEN 2 ELSE 0)

\* MLX90615.set_pwm_object_temp(object_temp) of the no-errors driver (lines 184-193).
noerrors_set_pwm_object_temp(m, object_temp) ==
    NoErrorsConfigUpdate(noerrors_read16(m, _REG_CONFIG), 65531, IF ~object_temp THEN 4 ELSE 0)

\* MLX90615.set_iir_filter(iir) of the no-errors driver (lines 198-206).
noerrors_set_iir_filter(m, iir) ==
    NoErrorsConfigUpdate(noerrors_read16(m, _REG_CONFIG), 36863, BitAnd(iir, 7) * 4096)

\* (self.read16(_REG_CONFIG) & 0x0001) == 0
PwmModeOf(rd) == IF rd.err # <<>> THEN rd ELSE Ok(rd.m, BitAnd(rd.val, 1) = 0)

\* MLX90615.read_pwm_mode() of the no-errors driver (lines 153-154).
noerrors_read_pwm_mode(m) == PwmModeOf(noerrors_read16(m, _REG_CONFIG))

\* (self.read16(_REG_CONFIG) & 0x0002) != 0
PwmFastOf(rd) == IF rd.err # <<>> THEN rd ELSE Ok(rd.m, BitAnd(rd.val, 2) # 0)

\* MLX90615.read_pwm_fast() of the no-errors driver (lines 167-168).
noerrors_read_pwm_fast(m) == PwmFastOf(noerrors_read16(m, _REG_CONFIG))

\* (self.read16(_REG_CONFIG) & 0x0004) == 0
PwmObjectTempOf(rd) == IF rd.err # <<>> THEN rd ELSE Ok(rd.m, BitAnd(rd.val, 4) = 0)

\* MLX90615.read_pwm_object_temp() of the no-errors driver (lines 181-182).
noerrors_read_pwm_object_temp(m) == PwmObjectTempOf(noerrors_read16(m, _REG_CONFIG))

\* (self.read16(_REG_CONFIG) & 0x7000) >> 12
IirFilterOf(rd) == IF rd.err # <<>> THEN rd ELSE Ok(rd.m, BitAnd(rd.val, 28672) \div 4096)

\* MLX90615.read_iir_filter() of the no-errors driver (lines 195-196).
noerrors_read_iir_filter(m) == IirFilterOf(noerrors_read16(m, _REG_CONFIG))

----------------------------------------------------------------------------
(* The micro:bit driver without error checking,                            *)
(* src/mlx90615_microbit_no-errors.py: a write is one i2c.write of         *)
(* [register, lsb, msb, crc], built afresh and not kept in self.buf; a     *)
(* read is an i2c.write of the register followed by an i2c.read of 3       *)
(* bytes, and self.buf is rebound to the bytes object i2c.read returns.    *)
(* The read accessors of src/mlx90615_microbit_simple_no-errors.py are     *)
(* the same code.                                                          *)

\* self.register_buf[0] = register; i2c.write(address, self.register_buf,
\* repeat=True): the register pointer sent, with no data.
microbit_i2c_write_pointer(m, a, r) ==
    IF Strike(m) = "nack"
    THEN Raise([m EXCEPT !.log = Logged(m, "pointer", a, r, <<>>, FALSE)], <<Exc("OSError", 0)>>)
    ELSE Ok([m EXCEPT !.log = Logged(m, "pointer", a, r, <<>>, TRUE)], 0)

\* self.buf = i2c.read(address, 3, repeat=True), made when the pointer write
\* raised nothing: the sensor answers with the register the pointer names.
microbit_i2c_read(wr, a, r) ==
    IF wr.err # <<>> THEN wr
    ELSE IF Strike(wr.m) = "nack"
    THEN Raise([wr.m EXCEPT !.log = Logged(wr.m, "read", a, r, <<>>, FALSE)],
               <<Exc("OSError", 0)>>)
    ELSE Ok([wr.m EXCEPT !.buf = Response(wr.m, a, r), !.buftype = "bytes",
                         !.log = Logged(wr.m, "read", a, r, Response(wr.m, a, r), TRUE)],
            0)

\* MLX90615.read16(register) of the micro:bit driver (lines 44-50): the PEC is
\* not looked at.
microbit_read16(m, register) ==
    Read16Unchecked(microbit_i2c_read(microbit_i2c_write_pointer(m, address, register),
                                      address, register))

\* i2c.write(address, bytearray([register]) + bytes, repeat=True)
microbit_i2c_write(m, a, r, bytes) ==
    IF Strike(m) = "nack"
    THEN Raise([m EXCEPT !.log = Logged(m, "write", a, r, bytes, FALSE)], <<Exc("OSError", 0)>>)
    ELSE Ok([m EXCEPT !.mem = Latch(m, a, r, bytes),
                      !.log = Logged(m, "write", a, r, bytes, TRUE)],
            0)

\* MLX90615.write16(register, data) of the micro:bit driver (lines 52-60): the
\* bus write, then the wait of line 60.
microbit_write16(m, register, data) ==
    Slept(microbit_i2c_write(m, address, register,
                             <<BitAnd(data, 255), data \div 256,
                               Write16Crc(register, BitAnd(data, 255), data \div 256)>>))

\* The next write16 of a setter and the wait after it.
MicrobitThenWrite16(prev, register, data) ==
    IF prev.err # <<>> THEN prev ELSE Slept(microbit_write16(prev.m, register, data))

\* A wait, write16(register, 0x0000) and a wait, write16(register, data) and a wait.
MicrobitEraseThenProgram(m, register, data) ==
    MicrobitThenWrite16(MicrobitThenWrite16(Ok(Wait(m), 0), register, 0), register, data)

\* MLX90615.set_emissivity(value) of the micro:bit driver (lines 86-93).
microbit_set_emissivity(m, value) ==
    IF (value >= 5) /\ (value <= 100)
    THEN MicrobitEraseThenProgram(m, _REG_EMISSIVITY, EmissivityRaw(value))
    ELSE Ok(m, 0)

\* MLX90615.set_i2c_address(addr) of the micro:bit driver (lines 98-106).
microbit_set_i2c_address(m, addr) ==
    IF address = 0
    THEN IF (addr >= 8) /\ (addr <= 119)
         THEN MicrobitEraseThenProgram(m, _REG_SLAVE_I2C_ADDRESS, BitOr(13568, addr))
         ELSE Ok(m, 0)
    ELSE Ok(m, 0)

----------------------------------------------------------------------------
(* Read accessors.                                                         *)

\* The else branch of read_ambient_temp / read_object_temp rejecting 0x7FFF too.
TempResult_inclusive(rd, register) ==
    IF rd.err # <<>> THEN rd
    ELSE IF rd.val >= 32767
    THEN Raise(rd.m, <<Exc("OutOfRange", register)>>)
    ELSE Ok(rd.m, rd.val * 2 - 27315)

\* The else branch of read_ambient_temp / read_object_temp (lines 89-92,
\* 100-103): t > 0x7FFF raises "Invalid ... temperature error.", else t*2 - 27315.
TempResult(rd, register) ==
    IF rd.err # <<>> THEN rd
    ELSE IF rd.val > 32767
    THEN Raise(rd.m, <<Exc("OutOfRange", register)>>)
    ELSE Ok(rd.m, rd.val * 2 - 27315)

\* MLX90615.read_ambient_temp(pec_check)
read_ambient_temp(m, pec_check) ==
    TempResult(Try(read16(m, _REG_AMBIENT_TEMP, pec_check), "TempReadFailed", _REG_AMBIENT_TEMP),
               _REG_AMBIENT_TEMP)

\* MLX90615.read_object_temp(pec_check)
read_object_temp(m, pec_check) ==
    TempResult(Try(read16(m, _REG_OBJECT_TEMP, pec_check), "TempReadFailed", _REG_OBJECT_TEMP),
               _REG_OBJECT_TEMP)

\* MLX90615.read_raw_ir_data(pec_check) (lines 105-111): the word as read.
read_raw_ir_data(m, pec_check) ==
    Try(read16(m, _REG_RAW_IR_DATA, pec_check), "RawIrReadFailed", _REG_RAW_IR_DATA)

\* Line 115 after its two reads: low | (high << 16).  The two words are 16
\* bits each, so the OR sets them side by side; the 32-bit value, which can
\* pass 2^31, is kept as its two 16-bit halves <<low, high>>.
IdResult(lo, hi) ==
    IF hi.err # <<>> THEN hi ELSE Ok(hi.m, <<lo.val % 65536, hi.val + lo.val \div 65536>>)

\* Line 115: the read of ID_HIGH, made when the read of ID_LOW raised nothing.
IdHighRead(lo, pec_check) ==
    IF lo.err # <<>> THEN lo ELSE IdResult(lo, read16(lo.m, _REG_ID_HIGH, pec_check))

\* MLX90615.read_id(pec_check) (lines 113-117): one try block around both reads.
read_id(m, pec_check) ==
    Try(IdHighRead(read16(m, _REG_ID_LOW, pec_check), pec_check), "IdReadFailed", _REG_ID_LOW)

\* The percentage truncated instead of rounded.
EmissivityPercent_truncated(d) == (100 * (IF d >= 32768 THEN 32768 - d ELSE d)) \div 16384

\* Lines 133-135: d reflected when d >= 32768, then round(100*d/0x4000).
EmissivityPercent(d) == Round(100 * (IF d >= 32768 THEN 32768 - d ELSE d), 16384)

\* read_emissivity after its read (lines 133-135).
EmissivityResult(rd) ==
    IF rd.err # <<>> THEN rd ELSE Ok(rd.m, EmissivityPercent(rd.val))

\* MLX90615.read_emissivity(pec_check)
read_emissivity(m, pec_check) ==
    EmissivityResult(Try(read16(m, _REG_EMISSIVITY, pec_check),
                         "EmissivityReadFailed", _REG_EMISSIVITY))

\* The low byte of the word in place of its low 7 bits.
I2cAddressResult_lowbyte(rd) ==
    IF rd.err # <<>> THEN rd ELSE Ok(rd.m, BitAnd(rd.val, 255))

\* Line 157: self.read16(...) & 0x007F.
I2cAddressResult(rd) ==
    IF rd.err # <<>> THEN rd ELSE Ok(rd.m, BitAnd(rd.val, 127))

\* MLX90615.read_i2c_address(pec_check)
read_i2c_address(m, pec_check) ==
    I2cAddressResult(Try(read16(m, _REG_SLAVE_I2C_ADDRESS, pec_check),
                         "AddressReadFailed", _REG_SLAVE_I2C_ADDRESS))

\* eeprom_data[register - 0x10] = the word read (line 123); the list is built
\* in register order, so storing at index register - 0x10 appends.
EepromStored(prev, rd) ==
    IF rd.err # <<>> THEN rd ELSE Ok(rd.m, Append(prev.val, rd.val))

\* The loop of read_eeprom from register on (lines 121-125).  The message of
\* the error raised, "Error reading EEPROM.", names no register.
RECURSIVE ReadEepromFrom(_, _, _)
ReadEepromFrom(prev, register, pec_check) ==
    IF prev.err # <<>> \/ register > 31 THEN prev
    ELSE ReadEepromFrom(EepromStored(prev, Try(read16(prev.m, register, pec_check),
                                               "EepromReadFailed", 0)),
                        register + 1, pec_check)

\* MLX90615.read_eeprom(pec_check)
read_eeprom(m, pec_check) == ReadEepromFrom(Ok(m, <<>>), 16, pec_check)

----------------------------------------------------------------------------
(* Read accessors of the drivers without error checking: no range test, no *)
(* wrapping of an OSError of the bus.  The conversions after the read are  *)
(* those of the full driver.                                               *)

\* read16(register)*2 - 27315, whatever the word read.
PlainTemp(rd) == IF rd.err # <<>> THEN rd ELSE Ok(rd.m, rd.val * 2 - 27315)

\* MLX90615.read_ambient_temp() of the no-errors driver (lines 64-65); the same
\* code is in src/mlx90615_simple_no-errors_v0.2.1.py.
noerrors_read_ambient_temp(m) == PlainTemp(noerrors_read16(m, _REG_AMBIENT_TEMP))

\* MLX90615.read_object_temp() of the no-errors driver (lines 67-68).
noerrors_read_object_temp(m) == PlainTemp(noerrors_read16(m, _REG_OBJECT_TEMP))

\* MLX90615.read_raw_ir_data() of the no-errors driver (lines 70-71).
noerrors_read_raw_ir_data(m) == noerrors_read16(m, _REG_RAW_IR_DATA)

\* MLX90615.read_id() of the no-errors driver (lines 73-74): ID_LOW is read
\* first, ID_HIGH when that read raised nothing.
noerrors_read_id(m) ==
    LET lo == noerrors_read16(m, _REG_ID_LOW)
    IN  IF lo.err # <<>> THEN lo ELSE IdResult(lo, noerrors_read16(lo.m, _REG_ID_HIGH))

\* The loop of read_eeprom from register on (lines 78-79): an OSError of the
\* bus ends it unwrapped.
RECURSIVE NoErrorsReadEepromFrom(_, _)
NoErrorsReadEepromFrom(prev, register) ==
    IF prev.err # <<>> \/ register > 31 THEN prev
    ELSE NoErrorsReadEepromFrom(EepromStored(prev, noerrors_read16(prev.m, register)),
                                register + 1)

\* MLX90615.read_eeprom() of the no-errors driver (lines 76-80).
noerrors_read_eeprom(m) == NoErrorsReadEepromFrom(Ok(m, <<>>), 16)

\* MLX90615.read_emissivity() of the no-errors driver (lines 82-86).
noerrors_read_emissivity(m) == EmissivityResult(noerrors_read16(m, _REG_EMISSIVITY))

\* MLX90615.read_i2c_address() of the no-errors driver (lines 97-98).
noerrors_read_i2c_address(m) == I2cAddressResult(noerrors_read16(m, _REG_SLAVE_I2C_ADDRESS))

\* MLX90615.read_ambient_temp() of the micro:bit driver (lines 62-63).
microbit_read_ambient_temp(m) == PlainTemp(microbit_read16(m, _REG_AMBIENT_TEMP))

\* MLX90615.read_object_temp() of the micro:bit driver (lines 65-66).
microbit_read_object_temp(m) == PlainTemp(microbit_read16(m, _REG_OBJECT_TEMP))

\* MLX90615.read_raw_ir_data() of the micro:bit driver (lines 68-69).
microbit_read_raw_ir_data(m) == microbit_read16(m, _REG_RAW_IR_DATA)

\* MLX90615.read_id() of the micro:bit driver (lines 71-72).
microbit_read_id(m) ==
    LET lo == microbit_read16(m, _REG_ID_LOW)
    IN  IF lo.err # <<>> THEN lo ELSE IdResult(lo, microbit_read16(lo.m, _REG_ID_HIGH))

\* The loop of read_eeprom from register on (lines 76-77).
RECURSIVE MicrobitReadEepromFrom(_, _)
MicrobitReadEepromFrom(prev, register) ==
    IF prev.err # <<>> \/ register > 31 THEN prev
    ELSE MicrobitReadEepromFrom(EepromStored(prev, microbit_read16(prev.m, register)),
                                register + 1)

\* MLX90615.read_eeprom() of the micro:bit driver (lines 74-78).
microbit_read_eeprom(m) == MicrobitReadEepromFrom(Ok(m, <<>>), 16)

\* MLX90615.read_emissivity() of the micro:bit driver (lines 80-84).
microbit_read_emissivity(m) == EmissivityResult(microbit_read16(m, _REG_EMISSIVITY))

\* MLX90615.read_i2c_address() of the micro:bit driver (lines 95-96).
microbit_read_i2c_address(m) == I2cAddressResult(microbit_read16(m, _REG_SLAVE_I2C_ADDRESS))

----------------------------------------------------------------------------
(* Power and mode transitions.  The bus record also gets the session       *)
(* controls (start, stop), the clock pin driven low and the bus scans.     *)

\* machine.Pin(scl_pin, machine.Pin.OUT).value(0)
PinLow(m, scl_pin) == [m EXCEPT !.log = Logged(m, "pin_low", address, scl_pin, <<>>, TRUE)]

\* i2c.start()
BusStart(m) == [m EXCEPT !.log = Logged(m, "start", address, 0, <<>>, TRUE)]

\* i2c.stop(), reached when the write before it raised nothing.
BusStop(wr) ==
    IF wr.err # <<>> THEN wr
    ELSE Ok([wr.m EXCEPT !.log = Logged(wr.m, "stop", address, 0, <<>>, TRUE)], 0)

\* i2c.scan() returning the list present.
BusScan(m, present) == [m EXCEPT !.log = Logged(m, "scan", address, 0, present, TRUE)]

\* a in present, for a list
Present(a, present) == \E i \in DOMAIN present : present[i] = a

\* Lines 183-185: the CRC over [address<<1, 0xC6] stored in self.buf[0]; the
\* other two bytes of self.buf stay as the last transaction left them.
SleepBuf(m) == [m EXCEPT !.buf[1] = _crc8(_crc8(0, address * 2), _REG_SLEEP)]

\* MLX90615.sleep(): line 186 hands the whole self.buf to writeto_mem.
sleep(m) == BusStop(i2c_writeto_mem(SleepBuf(m), address, _REG_SLEEP))

\* The presence test with the scan made whatever the instance address.
Restarted_alwaysscan(m, present) ==
    IF ~Present(address, present)
    THEN Raise(BusScan(m, present), <<Exc("WakeVerificationFailed", address)>>)
    ELSE Ok(BusScan(m, present), 0)

\* Lines 195-196 and 203-204: the scan is made only when the instance address
\* is in 0x08..0x77 (the `and` short-circuits); the exception names the address.
Restarted(m, present) ==
    IF (address >= 8) /\ (address <= 119)
    THEN IF ~Present(address, present)
         THEN Raise(BusScan(m, present), <<Exc("WakeVerificationFailed", address)>>)
         ELSE Ok(BusScan(m, present), 0)
    ELSE Ok(m, 0)

\* MLX90615.wake(scl_pin), on a bus whose scan returns present (lines 189-196):
\* the pin low, the 50 ms wait, the start, the 500 ms wait, the presence test.
wake(m, scl_pin, present) == Restarted(Wait(BusStart(Wait(PinLow(m, scl_pin)))), present)

\* MLX90615.pwm_to_i2c(scl_pin), on a bus whose scan returns present (lines
\* 198-204): the pin low, the 100 ms wait, the start, the presence test.
pwm_to_i2c(m, scl_pin, present) == Restarted(BusStart(Wait(PinLow(m, scl_pin))), present)

\* MLX90615.sleep() of the no-errors driver (lines 110-115): the code of the
\* full driver.
noerrors_sleep(m) == BusStop(i2c_writeto_mem(SleepBuf(m), address, _REG_SLEEP))

\* MLX90615.wake(scl_pin) of the no-errors driver (lines 117-123): the scan is
\* made whatever the instance address and its result is dropped.
noerrors_wake(m, scl_pin, present) ==
    Ok(BusScan(Wait(BusStart(Wait(PinLow(m, scl_pin)))), present), 0)

\* MLX90615.pwm_to_i2c(scl_pin) of the no-errors driver (lines 125-130).
noerrors_pwm_to_i2c(m, scl_pin, present) ==
    Ok(BusScan(BusStart(Wait(PinLow(m, scl_pin))), present), 0)

----------------------------------------------------------------------------
(* Calls.                                                                  *)

NoCall == [op |-> "none", args |-> <<>>, flags |-> <<>>, plan |-> NoFault]
NoResult == [err |-> <<>>, val |-> 0]
NoRest == [waits |-> <<>>, out |-> NoResult]

\* The caller may make a call: none is in progress and the budget is not spent.
\* The driver is single-threaded and its calls block: nothing of the program
\* runs while a call waits.
CanCall == pc = "idle" /\ ncalls < MaxCalls

\* The fault of a call's plan if one of the call's transactions met it.
Struck(m) == IF m.plan.at <= Len(m.log) THEN m.plan ELSE NoFault

\* A call's return that re-targets the instance at the address it provisioned.
Returned_readdressed(op, args, flags, out) ==
    \E o \in {out} :
        /\ pc' = "returned"
        /\ mem' = o.m.mem
        /\ buf' = o.m.buf
        /\ buftype' = o.m.buftype
        /\ log' = o.m.log
        /\ call' = [op |-> op, args |-> args, flags |-> flags, plan |-> Struck(o.m)]
        /\ result' = [err |-> o.err, val |-> o.val]
        /\ rest' = NoRest
        /\ address' = IF op = "set_i2c_address" /\ o.err = <<>> THEN args[1] ELSE address

\* The state a finished call leaves: the sensor and self.buf as the call left
\* them, the call's transactions and its outcome.
Returned(op, args, flags, out) ==
    \E o \in {out} :
        /\ pc' = "returned"
        /\ mem' = o.m.mem
        /\ buf' = o.m.buf
        /\ buftype' = o.m.buftype
        /\ log' = o.m.log
        /\ call' = [op |-> op, args |-> args, flags |-> flags, plan |-> Struck(o.m)]
        /\ result' = [err |-> o.err, val |-> o.val]
        /\ rest' = NoRest
        /\ UNCHANGED address

\* The state of a call standing at a wait: the sensor, self.buf and the bus
\* record as the wait found them; the call has no outcome yet.  ahead holds
\* that wait first, then the waits after it.
Waiting(op, args, flags, ahead, out) ==
    /\ pc' = "waiting"
    /\ mem' = ahead[1].mem
    /\ buf' = ahead[1].buf
    /\ buftype' = ahead[1].buftype
    /\ log' = ahead[1].log
    /\ call' = [op |-> op, args |-> args, flags |-> flags,
                plan |-> IF out.m.plan.at <= Len(ahead[1].log) THEN out.m.plan ELSE NoFault]
    /\ result' = NoResult
    /\ rest' = [waits |-> Tail(ahead), out |-> out]
    /\ UNCHANGED address

\* A call made: it runs to its first wait, or to its return when it has none.
\* What lies ahead of the wait is fixed by the state at the call, the
\* arguments and the fault plan.
Called(op, args, flags, out) ==
    /\ ncalls' = ncalls + 1
    /\ \E o \in {out} :
          IF o.m.waits = <<>>
          THEN Returned(op, args, flags, o)
          ELSE Waiting(op, args, flags, o.m.waits, [o EXCEPT !.m.waits = <<>>])

\* The wait is over: the call runs on to its next wait, or to its return.
Continue ==
    /\ pc = "waiting"
    /\ UNCHANGED ncalls
    /\ IF rest.waits = <<>>
       THEN Returned(call.op, call.args, call.flags, rest.out)
       ELSE Waiting(call.op, call.args, call.flags, rest.waits, rest.out)

\* The caller takes the outcome and clears the bus record before its next call.
Resume ==
    /\ pc = "returned"
    /\ pc' = "idle"
    /\ call' = NoCall
    /\ log' = <<>>
    /\ result' = NoResult
    /\ UNCHANGED <<address, buf, buftype, mem, ncalls, rest>>

\* The sensor as shipped: address 0x5B in 0x10, PWM range 0x09C3, emissivity
\* 1.0 (0x4000); the other words are sample values.
FactoryImage(config) ==
    [r \in Regs |->
        CASE r = 16 -> 13659
          [] r = 17 -> 2499
          [] r = 18 -> config
          [] r = 19 -> 16384
          [] r = 30 -> 4660
          [] r = 31 -> 43981
          [] r = 37 -> 291
          [] r = 38 -> 15000
          [] r = 39 -> 16384
          [] OTHER -> 0]

----------------------------------------------------------------------------
(* The transaction layer on its own: read16 and write16 called directly,   *)
(* those of the no-errors driver and the write16 of the micro:bit driver   *)
(* with them (none of these rebinds self.buf).                             *)

IOAddresses == {0, MLX90615_I2C_DEFAULT_ADDR, 119}
IORegs == {_REG_EMISSIVITY, _REG_OBJECT_TEMP}
IOWords == {0, 255, 15564, 65535}
IOFaults == Faults({1, 2}, {"nack", "nolatch", "badlsb", "badmsb", "badpec"}, {1, 128})

InitIO ==
    /\ address \in IOAddresses
    /\ buf = <<0, 0, 0>>
    /\ buftype = "bytearray"
    /\ mem = FactoryImage(5121)
    /\ pc = "idle"
    /\ ncalls = 0
    /\ call = NoCall
    /\ log = <<>>
    /\ result = NoResult
    /\ rest = NoRest

Read16Call ==
    /\ CanCall
    /\ \E register \in IORegs, crc_check \in BOOLEAN, plan \in IOFaults :
          Called("read16", <<register>>, <<crc_check>>,
                 read16(Machine(plan), register, crc_check))

Write16Call ==
    /\ CanCall
    /\ \E register \in IORegs, data \in IOWords, read_check \in BOOLEAN,
          plan \in IOFaults :
          Called("write16", <<register, data>>, <<read_check>>,
                 write16(Machine(plan), register, data, read_check))

NoErrorsRead16 ==
    /\ CanCall
    /\ \E register \in IORegs, plan \in IOFaults :
          Called("noerrors_read16", <<register>>, <<>>,
                 noerrors_read16(Machine(plan), register))

NoErrorsWrite16 ==
    /\ CanCall
    /\ \E register \in IORegs, data \in IOWords, plan \in IOFaults :
          Called("noerrors_write16", <<register, data>>, <<>>,
                 noerrors_write16(Machine(plan), register, data))

MicrobitWrite16 ==
    /\ CanCall
    /\ \E register \in IORegs, data \in IOWords, plan \in IOFaults :
          Called("microbit_write16", <<register, data>>, <<>>,
                 microbit_write16(Machine(plan), register, data))

NextIO ==
    \/ Read16Call \/ Write16Call
    \/ NoErrorsRead16 \/ NoErrorsWrite16 \/ MicrobitWrite16
    \/ Continue \/ Resume

SpecIO == InitIO /\ [][NextIO]_vars

----------------------------------------------------------------------------
(* The full driver: its four setters, called in any order on one sensor.   *)

Addresses == {0, MLX90615_I2C_DEFAULT_ADDR}
Percents == {4, 5, 95, 100, 101}
NewAddresses == {0, 7, 8, 119, 120}
PwmModes == {<<FALSE, FALSE, TRUE>>, <<TRUE, TRUE, FALSE>>, <<TRUE, FALSE, TRUE>>}
PwmLimits == {<<13659, 2499>>}
SetterFaults == Faults(1..MaxTx, {"nack", "nolatch", "badpec"}, {1})

\* The plans that can strike a call of at most n transactions.
FaultsWithin(n) == {plan \in SetterFaults : plan.at <= n}

Init ==
    /\ address \in Addresses
    /\ buf = <<0, 0, 0>>
    /\ buftype = "bytearray"
    /\ mem = FactoryImage(5121)
    /\ pc = "idle"
    /\ ncalls = 0
    /\ call = NoCall
    /\ log = <<>>
    /\ result = NoResult
    /\ rest = NoRest

SetEmissivity ==
    /\ CanCall
    /\ \E value \in Percents, eeprom_read_check \in BOOLEAN, plan \in FaultsWithin(4) :
          Called("set_emissivity", <<value>>, <<eeprom_read_check>>,
                 set_emissivity(Machine(plan), value, eeprom_read_check))

SetI2cAddress ==
    /\ CanCall
    /\ \E addr \in NewAddresses, eeprom_read_check \in BOOLEAN, plan \in FaultsWithin(4) :
          Called("set_i2c_address", <<addr>>, <<eeprom_read_check>>,
                 set_i2c_address(Machine(plan), addr, eeprom_read_check))

SetPwmTminTrange ==
    /\ CanCall
    /\ \E lim \in PwmLimits, eeprom_read_check \in BOOLEAN, plan \in FaultsWithin(MaxTx) :
          Called("set_pwm_tmin_trange", lim, <<eeprom_read_check>>,
                 set_pwm_tmin_trange(Machine(plan), lim[1], lim[2], eeprom_read_check))

SetPwmMode ==
    /\ CanCall
    /\ \E mode \in PwmModes, eeprom_read_check \in BOOLEAN, plan \in FaultsWithin(5) :
          Called("set_pwm_mode", <<>>, mode \o <<eeprom_read_check>>,
                 set_pwm_mode(Machine(plan), mode[1], mode[2], mode[3], eeprom_read_check))

Next == SetEmissivity \/ SetI2cAddress \/ SetPwmTminTrange \/ SetPwmMode \/ Continue \/ Resume

Spec == Init /\ [][Next]_vars

----------------------------------------------------------------------------
(* The read accessors of the full and of the no-errors driver, on a sensor *)
(* whose temperature registers hold words on both sides of the 0x7FFF      *)
(* boundary.                                                               *)

\* <<ambient, object>> register words.
RawTemps == { <<0, 32767>>, <<16384, 32768>>, <<32767, 65535>>, <<32768, 1>> }
ReadFaults == Faults({1}, {"nack", "badmsb", "badpec"}, {128})
EepromFaults == Faults({1, 3, 16}, {"nack", "badlsb", "badpec"}, {1})
IdFaults == Faults({1, 2}, {"nack", "badpec"}, {1})

InitRead ==
    /\ address \in Addresses
    /\ buf = <<0, 0, 0>>
    /\ buftype = "bytearray"
    /\ \E t \in RawTemps :
          mem = [FactoryImage(5121) EXCEPT ![_REG_AMBIENT_TEMP] = t[1],
                                           ![_REG_OBJECT_TEMP] = t[2]]
    /\ pc = "idle"
    /\ ncalls = 0
    /\ call = NoCall
    /\ log = <<>>
    /\ result = NoResult
    /\ rest = NoRest

ReadAmbientTemp ==
    /\ CanCall
    /\ \E pec_check \in BOOLEAN, plan \in ReadFaults :
          Called("read_ambient_temp", <<>>, <<pec_check>>,
                 read_ambient_temp(Machine(plan), pec_check))

ReadObjectTemp ==
    /\ CanCall
    /\ \E pec_check \in BOOLEAN, plan \in ReadFaults :
          Called("read_object_temp", <<>>, <<pec_check>>,
                 read_object_temp(Machine(plan), pec_check))

ReadEmissivity ==
    /\ CanCall
    /\ \E pec_check \in BOOLEAN, plan \in ReadFaults :
          Called("read_emissivity", <<>>, <<pec_check>>,
                 read_emissivity(Machine(plan), pec_check))

ReadEeprom ==
    /\ CanCall
    /\ \E pec_check \in BOOLEAN, plan \in EepromFaults :
          Called("read_eeprom", <<>>, <<pec_check>>,
                 read_eeprom(Machine(plan), pec_check))

ReadRawIrData ==
    /\ CanCall
    /\ \E pec_check \in BOOLEAN, plan \in ReadFaults :
          Called("read_raw_ir_data", <<>>, <<pec_check>>,
                 read_raw_ir_data(Machine(plan), pec_check))

ReadId ==
    /\ CanCall
    /\ \E pec_check \in BOOLEAN, plan \in IdFaults :
          Called("read_id", <<>>, <<pec_check>>, read_id(Machine(plan), pec_check))

NoErrorsReadFaults == Faults({1}, {"nack", "badmsb"}, {128})
NoErrorsIdFaults == Faults({1, 2}, {"nack"}, {0})
NoErrorsEepromFaults == Faults({1, 3, 16}, {"nack"}, {0})

NoErrorsReadAmbientTemp ==
    /\ CanCall
    /\ \E plan \in NoErrorsReadFaults :
          Called("noerrors_read_ambient_temp", <<>>, <<>>,
                 noerrors_read_ambient_temp(Machine(plan)))

NoErrorsReadObjectTemp ==
    /\ CanCall
    /\ \E plan \in NoErrorsReadFaults :
          Called("noerrors_read_object_temp", <<>>, <<>>,
                 noerrors_read_object_temp(Machine(plan)))

NoErrorsReadRawIrData ==
    /\ CanCall
    /\ \E plan \in NoErrorsReadFaults :
          Called("noerrors_read_raw_ir_data", <<>>, <<>>,
                 noerrors_read_raw_ir_data(Machine(plan)))

NoErrorsReadId ==
    /\ CanCall
    /\ \E plan \in NoErrorsIdFaults :
          Called("noerrors_read_id", <<>>, <<>>, noerrors_read_id(Machine(plan)))

NoErrorsReadEeprom ==
    /\ CanCall
    /\ \E plan \in NoErrorsEepromFaults :
          Called("noerrors_read_eeprom", <<>>, <<>>, noerrors_read_eeprom(Machine(plan)))

NoErrorsReadEmissivity ==
    /\ CanCall
    /\ \E plan \in NoErrorsReadFaults :
          Called("noerrors_read_emissivity", <<>>, <<>>,
                 noerrors_read_emissivity(Machine(plan)))

NoErrorsReadI2cAddress ==
    /\ CanCall
    /\ \E plan \in NoErrorsReadFaults :
          Called("noerrors_read_i2c_address", <<>>, <<>>,
                 noerrors_read_i2c_address(Machine(plan)))

\* No read accessor waits: each of these calls is one step.
NextRead ==
    \/ ReadAmbientTemp \/ ReadObjectTemp \/ ReadRawIrData \/ ReadId
    \/ ReadEmissivity \/ ReadEeprom
    \/ NoErrorsReadAmbientTemp \/ NoErrorsReadObjectTemp \/ NoErrorsReadRawIrData
    \/ NoErrorsReadId \/ NoErrorsReadEmissivity \/ NoErrorsReadEeprom
    \/ NoErrorsReadI2cAddress
    \/ Resume

SpecRead == InitRead /\ [][NextRead]_vars

----------------------------------------------------------------------------
(* Emissivity set and read back, on a sensor that stores what it is sent.  *)

EmissivityValues == 4..101

InitEmissivity ==
    /\ address = MLX90615_I2C_DEFAULT_ADDR
    /\ buf = <<0, 0, 0>>
    /\ buftype = "bytearray"
    /\ mem = FactoryImage(5121)
    /\ pc = "idle"
    /\ ncalls = 0
    /\ call = NoCall
    /\ log = <<>>
    /\ result = NoResult
    /\ rest = NoRest

\* set_emissivity on a bus that delivers and a sensor that stores.
SetEmissivityPercent ==
    /\ CanCall
    /\ \E value \in EmissivityValues, eeprom_read_check \in BOOLEAN :
          Called("set_emissivity", <<value>>, <<eeprom_read_check>>,
                 set_emissivity(Machine(NoFault), value, eeprom_read_check))

NextEmissivity == SetEmissivityPercent \/ ReadEmissivity \/ Continue \/ Resume

SpecEmissivity == InitEmissivity /\ [][NextEmissivity]_vars

----------------------------------------------------------------------------
(* The emissivity conversions, on every register word 0..0x4000.           *)

RawEmissivities == 0..16384

InitConv ==
    /\ address = MLX90615_I2C_DEFAULT_ADDR
    /\ buf = <<0, 0, 0>>
    /\ buftype = "bytearray"
    /\ \E x \in RawEmissivities : mem = [FactoryImage(5121) EXCEPT ![_REG_EMISSIVITY] = x]
    /\ pc = "idle"
    /\ ncalls = 0
    /\ call = NoCall
    /\ log = <<>>
    /\ result = NoResult
    /\ rest = NoRest

\* read_emissivity() with its default pec_check, on a bus that delivers.
ReadEmissivityIntact ==
    /\ CanCall
    /\ Called("read_emissivity", <<>>, <<TRUE>>, read_emissivity(Machine(NoFault), TRUE))

NextConv == ReadEmissivityIntact \/ Resume

SpecConv == InitConv /\ [][NextConv]_vars

----------------------------------------------------------------------------
(* The checksum unit called on every accumulator and data byte, between    *)
(* transactions that use it.                                               *)

Bytes == 0..255

\* self._crc8(icrc, data), called from outside the transaction layer.
Crc8Call ==
    /\ CanCall
    /\ \E icrc \in Bytes, data \in Bytes :
          Called("_crc8", <<icrc, data>>, <<>>, Ok(Machine(NoFault), _crc8(icrc, data)))

\* write16(0x13, 0x3CCD, read_check=False) on a bus that delivers.
Write16Plain ==
    /\ CanCall
    /\ Called("write16", <<_REG_EMISSIVITY, 15565>>, <<FALSE>>,
              write16(Machine(NoFault), _REG_EMISSIVITY, 15565, FALSE))

\* read16(0x13) on a bus that delivers.
Read16Plain ==
    /\ CanCall
    /\ Called("read16", <<_REG_EMISSIVITY>>, <<TRUE>>,
              read16(Machine(NoFault), _REG_EMISSIVITY, TRUE))

NextCrc == Crc8Call \/ Write16Plain \/ Read16Plain \/ Continue \/ Resume

SpecCrc == InitEmissivity /\ [][NextCrc]_vars

----------------------------------------------------------------------------
(* Sleep, wake and PWM-to-I2C, between register transactions.              *)

PowerAddresses == {0, 7, 8, MLX90615_I2C_DEFAULT_ADDR, 119, 120}
SclPins == {5}
ScanResults == {<<>>, <<8>>, <<MLX90615_I2C_DEFAULT_ADDR>>, <<8, 60, 119>>, <<0, 7, 120>>}
SleepFaults == Faults({1}, {"nack"}, {0})

InitPower ==
    /\ address \in PowerAddresses
    /\ buf = <<0, 0, 0>>
    /\ buftype = "bytearray"
    /\ mem = FactoryImage(5121)
    /\ pc = "idle"
    /\ ncalls = 0
    /\ call = NoCall
    /\ log = <<>>
    /\ result = NoResult
    /\ rest = NoRest

Sleep ==
    /\ CanCall
    /\ \E plan \in SleepFaults :
          Called("sleep", <<>>, <<>>, sleep(Machine(plan)))

Wake ==
    /\ CanCall
    /\ \E scl_pin \in SclPins, present \in ScanResults :
          Called("wake", <<scl_pin>>, <<>>, wake(Machine(NoFault), scl_pin, present))

PwmToI2c ==
    /\ CanCall
    /\ \E scl_pin \in SclPins, present \in ScanResults :
          Called("pwm_to_i2c", <<scl_pin>>, <<>>,
                 pwm_to_i2c(Machine(NoFault), scl_pin, present))

NoErrorsWake ==
    /\ CanCall
    /\ \E scl_pin \in SclPins, present \in ScanResults :
          Called("noerrors_wake", <<scl_pin>>, <<>>,
                 noerrors_wake(Machine(NoFault), scl_pin, present))

NoErrorsPwmToI2c ==
    /\ CanCall
    /\ \E scl_pin \in SclPins, present \in ScanResults :
          Called("noerrors_pwm_to_i2c", <<scl_pin>>, <<>>,
                 noerrors_pwm_to_i2c(Machine(NoFault), scl_pin, present))

NoErrorsSleep ==
    /\ CanCall
    /\ \E plan \in SleepFaults :
          Called("noerrors_sleep", <<>>, <<>>, noerrors_sleep(Machine(plan)))

NextPower ==
    \/ Sleep \/ Wake \/ PwmToI2c \/ NoErrorsSleep \/ NoErrorsWake \/ NoErrorsPwmToI2c
    \/ Read16Plain \/ Write16Plain
    \/ Continue \/ Resume

SpecPower == InitPower /\ [][NextPower]_vars

----------------------------------------------------------------------------
(* The setters of the three drivers that have setters, on one sensor.      *)

ConfigWords == {5121, 28680, 65535}
IirValues == {1, 7, 8}
VariantPercents == {4, 95, 101}
VariantAddresses == {7, 8, 120}
VariantLimits == {4788}
VariantFaults == Faults({1, 2}, {"nack"}, {0}) \cup Faults({1}, {"badmsb"}, {128})

InitVariants ==
    /\ address \in Addresses
    /\ buf = <<0, 0, 0>>
    /\ buftype = "bytearray"
    /\ \E config \in ConfigWords : mem = FactoryImage(config)
    /\ pc = "idle"
    /\ ncalls = 0
    /\ call = NoCall
    /\ log = <<>>
    /\ result = NoResult
    /\ rest = NoRest

\* set_pwm_mode of the full driver, with its default eeprom_read_check.
SetPwmModeChecked ==
    /\ CanCall
    /\ \E mode \in PwmModes, plan \in VariantFaults :
          Called("set_pwm_mode", <<>>, mode \o <<TRUE>>,
                 set_pwm_mode(Machine(plan), mode[1], mode[2], mode[3], TRUE))

NoErrorsSetPwmMode ==
    /\ CanCall
    /\ \E pwm \in BOOLEAN, plan \in VariantFaults :
          Called("noerrors_set_pwm_mode", <<>>, <<pwm>>,
                 noerrors_set_pwm_mode(Machine(plan), pwm))

NoErrorsSetPwmFast ==
    /\ CanCall
    /\ \E pwm_fast \in BOOLEAN, plan \in VariantFaults :
          Called("noerrors_set_pwm_fast", <<>>, <<pwm_fast>>,
                 noerrors_set_pwm_fast(Machine(plan), pwm_fast))

NoErrorsSetPwmObjectTemp ==
    /\ CanCall
    /\ \E object_temp \in BOOLEAN, plan \in VariantFaults :
          Called("noerrors_set_pwm_object_temp", <<>>, <<object_temp>>,
                 noerrors_set_pwm_object_temp(Machine(plan), object_temp))

NoErrorsSetIirFilter ==
    /\ CanCall
    /\ \E iir \in IirValues, plan \in VariantFaults :
          Called("noerrors_set_iir_filter", <<iir>>, <<>>,
                 noerrors_set_iir_filter(Machine(plan), iir))

NoErrorsSetEmissivity ==
    /\ CanCall
    /\ \E value \in VariantPercents, plan \in VariantFaults :
          Called("noerrors_set_emissivity", <<value>>, <<>>,
                 noerrors_set_emissivity(Machine(plan), value))

NoErrorsSetI2cAddress ==
    /\ CanCall
    /\ \E addr \in VariantAddresses, plan \in VariantFaults :
          Called("noerrors_set_i2c_address", <<addr>>, <<>>,
                 noerrors_set_i2c_address(Machine(plan), addr))

MicrobitSetEmissivity ==
    /\ CanCall
    /\ \E value \in VariantPercents, plan \in VariantFaults :
          Called("microbit_set_emissivity", <<value>>, <<>>,
                 microbit_set_emissivity(Machine(plan), value))

MicrobitSetI2cAddress ==
    /\ CanCall
    /\ \E addr \in VariantAddresses, plan \in VariantFaults :
          Called("microbit_set_i2c_address", <<addr>>, <<>>,
                 microbit_set_i2c_address(Machine(plan), addr))

NoErrorsSetPwmTmin ==
    /\ CanCall
    /\ \E tmin \in VariantLimits, plan \in VariantFaults :
          Called("noerrors_set_pwm_tmin", <<tmin>>, <<>>,
                 noerrors_set_pwm_tmin(Machine(plan), tmin))

NoErrorsSetPwmTrange ==
    /\ CanCall
    /\ \E trange \in VariantLimits, plan \in VariantFaults :
          Called("noerrors_set_pwm_trange", <<trange>>, <<>>,
                 noerrors_set_pwm_trange(Machine(plan), trange))

NoErrorsReadPwmTmin ==
    /\ CanCall
    /\ \E plan \in VariantFaults :
          Called("noerrors_read_pwm_tmin", <<>>, <<>>, noerrors_read_pwm_tmin(Machine(plan)))

NoErrorsReadPwmTrange ==
    /\ CanCall
    /\ \E plan \in VariantFaults :
          Called("noerrors_read_pwm_trange", <<>>, <<>>, noerrors_read_pwm_trange(Machine(plan)))

NextVariants ==
    \/ SetPwmModeChecked
    \/ NoErrorsSetPwmMode \/ NoErrorsSetPwmFast \/ NoErrorsSetPwmObjectTemp
    \/ NoErrorsSetIirFilter \/ NoErrorsSetEmissivity \/ NoErrorsSetI2cAddress
    \/ NoErrorsSetPwmTmin \/ NoErrorsSetPwmTrange
    \/ NoErrorsReadPwmTmin \/ NoErrorsReadPwmTrange
    \/ MicrobitSetEmissivity \/ MicrobitSetI2cAddress
    \/ Continue \/ Resume

SpecVariants == InitVariants /\ [][NextVariants]_vars

----------------------------------------------------------------------------
(* The config fields of the no-errors driver, set and read back.           *)

ConfigReadFaults == Faults({1}, {"nack"}, {0})

NoErrorsReadPwmMode ==
    /\ CanCall
    /\ \E plan \in ConfigReadFaults :
          Called("noerrors_read_pwm_mode", <<>>, <<>>, noerrors_read_pwm_mode(Machine(plan)))

NoErrorsReadPwmFast ==
    /\ CanCall
    /\ \E plan \in ConfigReadFaults :
          Called("noerrors_read_pwm_fast", <<>>, <<>>, noerrors_read_pwm_fast(Machine(plan)))

NoErrorsReadPwmObjectTemp ==
    /\ CanCall
    /\ \E plan \in ConfigReadFaults :
          Called("noerrors_read_pwm_object_temp", <<>>, <<>>,
                 noerrors_read_pwm_object_temp(Machine(plan)))

NoErrorsReadIirFilter ==
    /\ CanCall
    /\ \E plan \in ConfigReadFaults :
          Called("noerrors_read_iir_filter", <<>>, <<>>, noerrors_read_iir_filter(Machine(plan)))

NextConfig ==
    \/ NoErrorsSetPwmMode \/ NoErrorsSetPwmFast \/ NoErrorsSetPwmObjectTemp
    \/ NoErrorsSetIirFilter
    \/ NoErrorsReadPwmMode \/ NoErrorsReadPwmFast \/ NoErrorsReadPwmObjectTemp
    \/ NoErrorsReadIirFilter
    \/ Continue \/ Resume

SpecConfig == InitVariants /\ [][NextConfig]_vars

----------------------------------------------------------------------------
(* The micro:bit driver: its transaction layer, its read accessors and its *)
(* two setters.  A read is two bus operations, the pointer write and the   *)
(* 3-byte read, so a fault can strike either.                              *)

MicrobitReadFaults == Faults({1, 2}, {"nack"}, {0}) \cup Faults({2}, {"badmsb"}, {128})
MicrobitIdFaults == Faults({1, 2, 3, 4}, {"nack"}, {0})
MicrobitEepromFaults == Faults({1, 2, 5, 32}, {"nack"}, {0})

MicrobitRead16 ==
    /\ CanCall
    /\ \E register \in IORegs, plan \in MicrobitReadFaults :
          Called("microbit_read16", <<register>>, <<>>,
                 microbit_read16(Machine(plan), register))

MicrobitReadAmbientTemp ==
    /\ CanCall
    /\ \E plan \in MicrobitReadFaults :
          Called("microbit_read_ambient_temp", <<>>, <<>>,
                 microbit_read_ambient_temp(Machine(plan)))

MicrobitReadObjectTemp ==
    /\ CanCall
    /\ \E plan \in MicrobitReadFaults :
          Called("microbit_read_object_temp", <<>>, <<>>,
                 microbit_read_object_temp(Machine(plan)))

MicrobitReadRawIrData ==
    /\ CanCall
    /\ \E plan \in MicrobitReadFaults :
          Called("microbit_read_raw_ir_data", <<>>, <<>>,
                 microbit_read_raw_ir_data(Machine(plan)))

MicrobitReadId ==
    /\ CanCall
    /\ \E plan \in MicrobitIdFaults :
          Called("microbit_read_id", <<>>, <<>>, microbit_read_id(Machine(plan)))

MicrobitReadEeprom ==
    /\ CanCall
    /\ \E plan \in MicrobitEepromFaults :
          Called("microbit_read_eeprom", <<>>, <<>>, microbit_read_eeprom(Machine(plan)))

MicrobitReadEmissivity ==
    /\ CanCall
    /\ \E plan \in MicrobitReadFaults :
          Called("microbit_read_emissivity", <<>>, <<>>,
                 microbit_read_emissivity(Machine(plan)))

MicrobitReadI2cAddress ==
    /\ CanCall
    /\ \E plan \in MicrobitReadFaults :
          Called("microbit_read_i2c_address", <<>>, <<>>,
                 microbit_read_i2c_address(Machine(plan)))

\* MicrobitWrite16 is the write16 action of the transaction layer above.
NextMicrobit ==
    \/ MicrobitRead16 \/ MicrobitWrite16
    \/ MicrobitReadAmbientTemp \/ MicrobitReadObjectTemp \/ MicrobitReadRawIrData
    \/ MicrobitReadId \/ MicrobitReadEeprom
    \/ MicrobitReadEmissivity \/ MicrobitReadI2cAddress
    \/ MicrobitSetEmissivity \/ MicrobitSetI2cAddress
    \/ Continue \/ Resume

SpecMicrobit == InitRead /\ [][NextMicrobit]_vars

----------------------------------------------------------------------------
(* Register 0x10, written as the bus address and as the PWM minimum         *)
(* temperature, on sensors provisioned with different addresses.           *)

\* The addresses the sensor was provisioned with before (0x5B as shipped).
ProvisionedAddresses == {8, 42, MLX90615_I2C_DEFAULT_ADDR, 119}
\* <<tmin, trange>>: the defaults, and a tmin whose low byte has bit 7 set.
SharedLimits == {<<13659, 2499>>, <<4788, 256>>}
SharedFaults == Faults({3, 4}, {"nack", "nolatch"}, {0})

InitShared ==
    /\ address \in Addresses
    /\ buf = <<0, 0, 0>>
    /\ buftype = "bytearray"
    /\ \E a \in ProvisionedAddresses :
          mem = [FactoryImage(5121) EXCEPT ![_REG_SLAVE_I2C_ADDRESS] = BitOr(13568, a)]
    /\ pc = "idle"
    /\ ncalls = 0
    /\ call = NoCall
    /\ log = <<>>
    /\ result = NoResult
    /\ rest = NoRest

\* set_i2c_address with its default eeprom_read_check, on a bus that delivers.
SetI2cAddressPlain ==
    /\ CanCall
    /\ \E addr \in ProvisionedAddresses :
          Called("set_i2c_address", <<addr>>, <<FALSE>>,
                 set_i2c_address(Machine(NoFault), addr, FALSE))

SetPwmLimits ==
    /\ CanCall
    /\ \E lim \in SharedLimits, eeprom_read_check \in BOOLEAN, plan \in SharedFaults :
          Called("set_pwm_tmin_trange", lim, <<eeprom_read_check>>,
                 set_pwm_tmin_trange(Machine(plan), lim[1], lim[2], eeprom_read_check))

ReadI2cAddress ==
    /\ CanCall
    /\ \E pec_check \in BOOLEAN, plan \in ConfigReadFaults :
          Called("read_i2c_address", <<>>, <<pec_check>>,
                 read_i2c_address(Machine(plan), pec_check))

NextShared == SetI2cAddressPlain \/ SetPwmLimits \/ ReadI2cAddress \/ Continue \/ Resume

SpecShared == InitShared /\ [][NextShared]_vars

----------------------------------------------------------------------------
(* The full driver as a whole: every accessor of src/mlx90615.py, called   *)
(* in any order on one sensor.                                             *)

DirectFaults == Faults({1, 2}, {"nack", "nolatch", "badpec"}, {1})

\* read16(0x13, crc_check) called directly.
Read16Direct ==
    /\ CanCall
    /\ \E crc_check \in BOOLEAN, plan \in DirectFaults :
          Called("read16", <<_REG_EMISSIVITY>>, <<crc_check>>,
                 read16(Machine(plan), _REG_EMISSIVITY, crc_check))

\* write16(0x13, 0x3CCC, read_check) called directly.
Write16Direct ==
    /\ CanCall
    /\ \E read_check \in BOOLEAN, plan \in DirectFaults :
          Called("write16", <<_REG_EMISSIVITY, 15564>>, <<read_check>>,
                 write16(Machine(plan), _REG_EMISSIVITY, 15564, read_check))

NextDriver ==
    \/ SetEmissivity \/ SetI2cAddress \/ SetPwmTminTrange \/ SetPwmMode
    \/ ReadAmbientTemp \/ ReadObjectTemp \/ ReadRawIrData \/ ReadId
    \/ ReadEmissivity \/ ReadEeprom \/ ReadI2cAddress
    \/ Read16Direct \/ Write16Direct
    \/ Sleep \/ Wake \/ PwmToI2c
    \/ Continue \/ Resume

SpecDriver == Init /\ [][NextDriver]_vars

----------------------------------------------------------------------------
(* Reading the bus record of a call.                                       *)

Setters == {"set_emissivity", "set_i2c_address", "set_pwm_tmin_trange", "set_pwm_mode"}
InSetter == pc = "returned" /\ call.op \in Setters

Tx == 1..Len(log)
IsWrite(i) == log[i].op = "write"
IsRead(i) == log[i].op = "read"

\* The 16-bit word a transaction carried (its first two bytes, low first).
Word(i) == log[i].bytes[1] + 256 * log[i].bytes[2]

\* An erase is the first write of the call to its register, carrying 0x0000;
\* every other write programs a value.
FirstWriteTo(i) == \A j \in 1..(i - 1) : ~(IsWrite(j) /\ log[j].reg = log[i].reg)
IsErase(i) == IsWrite(i) /\ Word(i) = 0 /\ FirstWriteTo(i)
IsProgram(i) == IsWrite(i) /\ ~IsErase(i)

\* The PEC of a read response is the one the read frame calls for.
PecOk(i) ==
    log[i].bytes[3] = Crc8Fold(0, <<log[i].addr * 2, log[i].reg, log[i].addr * 2 + 1,
                                    log[i].bytes[1], log[i].bytes[2]>>)

\* The last flag of every setter is eeprom_read_check.
ReadCheck == call.flags[Len(call.flags)]

\* A read refused by the bus or answered with a wrong PEC.
ReadFailed(i) == IsRead(i) /\ (~log[i].ok \/ ~PecOk(i))

\* A read-back: the read of a register right after the write to it.
IsReadBack(i) == IsRead(i) /\ i > 1 /\ IsWrite(i - 1) /\ log[i - 1].reg = log[i].reg

\* A step that failed: a transaction the bus refused, a read with a wrong PEC,
\* a read-back that differs from the word written.
Failed(i) ==
    \/ ~log[i].ok
    \/ ReadFailed(i)
    \/ IsReadBack(i) /\ Word(i) # Word(i - 1)

\* The erase at i failed: the write was refused, or its read-back failed or
\* did not give 0x0000.
EraseFailedAt(i) ==
    /\ IsErase(i)
    /\ \/ ~log[i].ok
       \/ /\ ReadCheck
          /\ i + 1 <= Len(log)
          /\ (ReadFailed(i + 1) \/ Word(i + 1) # 0)

IsWriteEntry(e) == e.op = "write"
\* The writes of the call, in order, as <<register, word>> pairs.
WriteSeq ==
    LET ws == SelectSeq(log, IsWriteEntry)
    IN  [k \in 1..Len(ws) |-> <<ws[k].reg, ws[k].bytes[1] + 256 * ws[k].bytes[2]>>]

IsPrefix(s, t) == Len(s) <= Len(t) /\ \A k \in 1..Len(s) : s[k] = t[k]

----------------------------------------------------------------------------
(* Claims.                                                                 *)

\* C1: in every setter call, a write that programs a value into register R
\* comes after an acknowledged write of 0x0000 to R in the same call; no
\* register is programmed without having been erased earlier in the call.
C1_EraseBeforeProgram ==
    InSetter =>
        \A i \in Tx :
            IsProgram(i) =>
                \E j \in 1..(i - 1) :
                    IsWrite(j) /\ log[j].reg = log[i].reg /\ Word(j) = 0 /\ log[j].ok

\* set_pwm_tmin_trange ran to the end: both registers erased, both programmed.
C1_Witness ==
    /\ InSetter /\ call.op = "set_pwm_tmin_trange" /\ result.err = <<>>
    /\ Cardinality({i \in Tx : IsProgram(i)}) = 2

\* The write that follows the erase at i, if the call issued one, programs the
\* register just erased.
ProgramFollows(i) ==
    \A j \in Tx :
        (j > i /\ IsWrite(j) /\ \A k \in (i + 1)..(j - 1) : ~IsWrite(k))
            => (log[j].reg = log[i].reg /\ IsProgram(j))

\* C2 as stated: in every setter the erase of a register is immediately
\* followed by the program write to the same register, with no write to
\* another register in between, set_pwm_tmin_trange included.
C2_EraseImmediatelyProgrammed ==
    InSetter => \A i \in Tx : IsErase(i) => ProgramFollows(i)

\* C2 amended: set_emissivity, set_i2c_address and set_pwm_mode program a
\* register right after erasing it; set_pwm_tmin_trange erases 0x10, erases
\* 0x11, then programs 0x10 with tmin and 0x11 with trange, so the erase of
\* either register is separated from its program write by one write to the other.
C2_EraseThenProgramOrder ==
    InSetter =>
        IF call.op = "set_pwm_tmin_trange"
        THEN IsPrefix(WriteSeq, << <<_REG_PWM_TMIN, 0>>, <<_REG_PWM_TRANGE, 0>>,
                                   <<_REG_PWM_TMIN, call.args[1]>>,
                                   <<_REG_PWM_TRANGE, call.args[2]>> >>)
        ELSE \A i \in Tx : IsErase(i) => ProgramFollows(i)

\* set_pwm_tmin_trange got as far as programming TMIN after erasing TRANGE.
C2_Witness ==
    /\ InSetter /\ call.op = "set_pwm_tmin_trange"
    /\ Len(WriteSeq) >= 3

\* C3: when the erase of a setter fails (write refused, read-back failed or
\* read-back not 0x0000), the failing transaction is the last of the call, the
\* call raises the erase-phase error and no program write is issued.
C3_EraseFailureStopsCall ==
    InSetter =>
        \A i \in Tx :
            EraseFailedAt(i) =>
                /\ result.err # <<>>
                /\ Head(result.err).kind = "ErasePhaseFailed"
                /\ Len(log) = (IF log[i].ok THEN i + 1 ELSE i)
                /\ \A j \in Tx : ~IsProgram(j)

\* An erase the sensor acknowledged but did not take: the read-back arrives
\* intact and is not 0x0000.
C3_Witness ==
    /\ InSetter
    /\ \E i \in Tx :
          /\ IsErase(i) /\ log[i].ok /\ ReadCheck
          /\ i + 1 <= Len(log) /\ ~ReadFailed(i + 1) /\ Word(i + 1) # 0
    /\ Head(result.err).kind = "ErasePhaseFailed"

\* C4: read16 with verification returns lsb | msb << 8 exactly when the check
\* byte received is the CRC-8 over [address<<1, register, (address<<1)|1, lsb,
\* msb], and raises ChecksumMismatch for the register otherwise; without
\* verification it returns lsb | msb << 8 for every response.
C4_Read16Checksum ==
    (pc = "returned" /\ call.op = "read16" /\ log[1].ok) =>
        LET b      == log[1].bytes
            reg    == call.args[1]
            expect == Crc8Fold(0, <<address * 2, reg, address * 2 + 1, b[1], b[2]>>)
            word   == b[1] + 256 * b[2]
        IN  IF call.flags[1] /\ b[3] # expect
            THEN result.err = <<Exc("ChecksumMismatch", reg)>>
            ELSE result = [err |-> <<>>, val |-> word]

\* A verified read whose check byte arrived garbled.
C4_Witness ==
    /\ pc = "returned" /\ call.op = "read16" /\ call.flags[1]
    /\ call.plan.kind = "badpec"
    /\ result.err = <<Exc("ChecksumMismatch", call.args[1])>>

\* C5: take any read whose response is valid and replace its lsb or its msb
\* by any other byte value: read16 with verification raises ChecksumMismatch,
\* read16 without verification returns the corrupted word.
C5_CorruptedByteDetected ==
    /\ (pc = "returned" /\ call.op = "read16" /\ call.plan = NoFault) =>
          \A kind \in {"badlsb", "badmsb"}, x \in 1..255 :
              LET garble   == [at |-> 1, kind |-> kind, mask |-> x]
                  reg      == call.args[1]
                  checked   == read16(Machine(garble), reg, TRUE)
                  unchecked == read16(Machine(garble), reg, FALSE)
              IN  /\ checked.err = <<Exc("ChecksumMismatch", reg)>>
                  /\ unchecked.err = <<>>
                  /\ unchecked.val # result.val
                  /\ unchecked.val = unchecked.m.buf[1] + 256 * unchecked.m.buf[2]
    /\ (pc = "returned" /\ call.op = "read16" /\ call.plan.kind \in {"badlsb", "badmsb"}) =>
          IF call.flags[1]
          THEN result.err = <<Exc("ChecksumMismatch", call.args[1])>>
          ELSE result.err = <<>> /\ result.val # mem[call.args[1]] /\ result.val = Word(1)

\* An unverified read returned a word whose msb was garbled on the bus.
C5_Witness ==
    /\ pc = "returned" /\ call.op = "read16" /\ ~call.flags[1]
    /\ call.plan.kind = "badmsb"
    /\ result.err = <<>> /\ result.val # mem[call.args[1]]

\* C6: write16(register, value) issues exactly one bus write, to the instance
\* address, of [register, lsb, msb, check] with lsb = value & 0xFF,
\* msb = value >> 8 and check the CRC-8 over [address<<1, register, lsb, msb].
C6_Write16Frame ==
    (pc = "returned" /\ call.op \in {"write16", "noerrors_write16", "microbit_write16"}) =>
        LET reg == call.args[1]
            lsb == call.args[2] % 256
            msb == call.args[2] \div 256
        IN  /\ {i \in Tx : IsWrite(i)} = {1}
            /\ log[1].addr = address
            /\ log[1].reg = reg
            /\ log[1].bytes = <<lsb, msb, Crc8Fold(0, <<address * 2, reg, lsb, msb>>)>>

\* write16(0x13, 0x3CCC) at address 0x5B, written and read back.
C6_Witness ==
    /\ pc = "returned" /\ call.op = "write16" /\ call.args = <<_REG_EMISSIVITY, 15564>>
    /\ address = MLX90615_I2C_DEFAULT_ADDR
    /\ call.flags[1] /\ result.err = <<>> /\ Len(log) = 2

\* C7: write16 with read_check reads the register back and raises a
\* write-verify error naming the register when the word read back differs
\* from the word written, returns when they agree; without read_check it
\* issues no read.
C7_WriteVerifyFailed ==
    (pc = "returned" /\ call.op = "write16") =>
        IF ~call.flags[1]
        THEN \A i \in Tx : ~IsRead(i)
        ELSE (Len(log) = 2 /\ log[1].ok /\ ~ReadFailed(2)) =>
                 /\ IsReadBack(2)
                 /\ IF Word(2) # call.args[2]
                    THEN result.err = <<Exc("WriteVerifyFailed", call.args[1])>>
                    ELSE result.err = <<>>

\* The accessors that read a register with the PEC verification as a flag.
ReadOps ==
    {"read16", "read_ambient_temp", "read_object_temp", "read_raw_ir_data", "read_id",
     "read_emissivity", "read_eeprom", "read_i2c_address"}

\* Every accessor of the full driver.
Accessors == Setters \cup ReadOps \cup {"write16", "sleep", "wake", "pwm_to_i2c"}

\* The call verifies no PEC: a read accessor called with its check off.
Unverified == call.op \in ReadOps /\ ~call.flags[1]

\* A step of the call that failed: a refused transaction and, where the call
\* verifies, a read with a wrong PEC or a read-back that differs from the word
\* written.
FailedStep(i) == IF Unverified THEN ~log[i].ok ELSE Failed(i)

\* Each transaction is issued at most once: a register is written once (twice
\* in a setter: erase, program), read back at most once per write and read
\* otherwise at most once; the pin, start, stop and scan steps happen at most
\* once each.
IssuedOnce ==
    /\ \A r \in Regs \cup {_REG_SLEEP} :
          LET writes    == {i \in Tx : IsWrite(i) /\ log[i].reg = r}
              readbacks == {i \in Tx : IsReadBack(i) /\ log[i].reg = r}
              reads     == {i \in Tx : IsRead(i) /\ ~IsReadBack(i) /\ log[i].reg = r}
          IN  /\ Cardinality(writes) <= (IF call.op \in Setters THEN 2 ELSE 1)
              /\ Cardinality(readbacks) <= Cardinality(writes)
              /\ Cardinality(reads) <= 1
    /\ \A o \in {"pin_low", "start", "stop", "scan"} :
          Cardinality({i \in Tx : log[i].op = o}) <= 1
    /\ \A i \in Tx : (IsWrite(i) \/ IsRead(i)) => log[i].reg \in Regs \cup {_REG_SLEEP}

\* C8: no retry.  In a call of any accessor of the driver (the four setters,
\* the read accessors, read16 and write16 called directly, sleep, wake and
\* pwm_to_i2c) each transaction is issued at most once, and a failed step
\* (refused transaction, wrong PEC, read-back mismatch) is the last transaction
\* of the call, which raises; no call stands at a wait after a failed step.
\* In a setter call moreover an error after a transaction means that the last
\* transaction failed, each register is written at most twice (erase,
\* program) and read back at most once per write.
C8_NoRetry ==
    /\ (pc = "returned" /\ call.op \in Accessors) =>
          /\ \A i \in Tx : FailedStep(i) => (i = Len(log) /\ result.err # <<>>)
          /\ IssuedOnce
    /\ (pc = "waiting" /\ call.op \in Accessors) => \A i \in Tx : ~FailedStep(i)
    /\ InSetter =>
          /\ \A i \in Tx : Failed(i) => (i = Len(log) /\ result.err # <<>>)
          /\ (result.err # <<>> /\ log # <<>>) => Failed(Len(log))
          /\ \A r \in Regs :
                LET writes == {i \in Tx : IsWrite(i) /\ log[i].reg = r}
                    reads  == {i \in Tx : IsReadBack(i) /\ log[i].reg = r}
                IN  /\ Cardinality(writes) <= 2
                    /\ Cardinality(reads) <= Cardinality(writes)
          /\ \A i \in Tx : (i > 1 /\ IsRead(i)) => IsReadBack(i)

\* The bus refused the third transaction of a call, and the call ended there.
C8_Witness ==
    /\ InSetter /\ Len(log) = 3 /\ ~log[3].ok /\ IsWrite(3)
    /\ result.err # <<>>

\* The arguments the setters reject.
Rejected(c) ==
    \/ c.op = "set_emissivity" /\ (c.args[1] < 5 \/ c.args[1] > 100)
    \/ c.op = "set_i2c_address" /\ (address # 0 \/ c.args[1] < 8 \/ c.args[1] > 119)
    \/ c.op = "set_pwm_tmin_trange" /\ address # 0

\* C9: a setter call with rejected arguments raises and issues no bus
\* transaction; the sensor's registers and self.buf are as before the call.
\* The call returns in the step that makes it, without a wait.
C9_RejectBeforeBus ==
    [][(pc = "idle" /\ pc' # "idle" /\ Rejected(call')) =>
          /\ pc' = "returned"
          /\ log' = <<>>
          /\ mem' = mem
          /\ buf' = buf
          /\ result'.err # <<>>]_vars

\* set_emissivity(101), just above the range, on an untouched bus.
C9_Witness ==
    /\ pc = "returned" /\ call.op = "set_emissivity" /\ call.args = <<101>>
    /\ log = <<>> /\ result.err # <<>>

\* C10: set_i2c_address raises PreconditionFailed whenever the instance
\* address is nonzero; at instance address 0 it raises AddressOutOfRange for
\* new_address outside 0x08..0x77 and otherwise erases register 0x10 and
\* programs 0x3500 | new_address into it.
C10_SetI2cAddress ==
    (pc = "returned" /\ call.op = "set_i2c_address") =>
        LET new == call.args[1]
        IN  IF address # 0
            THEN result.err = <<Exc("PreconditionFailed", _REG_SLAVE_I2C_ADDRESS)>> /\ log = <<>>
            ELSE IF new < 8 \/ new > 119
            THEN result.err = <<Exc("AddressOutOfRange", _REG_SLAVE_I2C_ADDRESS)>> /\ log = <<>>
            ELSE /\ log # <<>>
                 /\ IsPrefix(WriteSeq, << <<_REG_SLAVE_I2C_ADDRESS, 0>>,
                                          <<_REG_SLAVE_I2C_ADDRESS, 13568 + new>> >>)
                 /\ \A e \in {result.err[k] : k \in DOMAIN result.err} :
                        e.kind \notin {"PreconditionFailed", "AddressOutOfRange"}
                 /\ result.err = <<>> =>
                        (Len(WriteSeq) = 2 /\
                         (call.plan.kind # "nolatch" => mem[_REG_SLAVE_I2C_ADDRESS] = 13568 + new))

\* Address 0x77, the top of the range, provisioned.
C10_Witness ==
    /\ pc = "returned" /\ call.op = "set_i2c_address" /\ call.args = <<119>>
    /\ result.err = <<>> /\ mem[_REG_SLAVE_I2C_ADDRESS] = 13687

\* The register a temperature accessor reads.
TempReg == IF call.op = "read_ambient_temp" THEN _REG_AMBIENT_TEMP ELSE _REG_OBJECT_TEMP

\* A temperature accessor returned or raised after read16 gave it a word: the
\* bus delivered the response and, when the PEC is checked, the PEC was right.
TempRead ==
    /\ pc = "returned" /\ call.op \in {"read_ambient_temp", "read_object_temp"}
    /\ log[1].ok /\ (call.flags[1] => PecOk(1))

\* C11: read_ambient_temp and read_object_temp return raw*2 - 27315 for every
\* raw register word 0 <= raw <= 0x7FFF (0x7FFF included, giving 38219) and
\* raise OutOfRange for every raw word 0x8000..0xFFFF; a returned temperature
\* lies in -27315..38219.
C11_TemperatureRange ==
    TempRead =>
        /\ Len(log) = 1 /\ log[1].reg = TempReg
        /\ IF Word(1) <= 32767
           THEN /\ result = [err |-> <<>>, val |-> Word(1) * 2 - 27315]
                /\ result.val \in -27315..38219
           ELSE result.err = <<Exc("OutOfRange", TempReg)>>

\* The object register holds 0x7FFF, the last accepted word: 38219 is returned.
C11_Witness ==
    /\ TempRead /\ call.op = "read_object_temp" /\ call.plan = NoFault
    /\ Word(1) = 32767
    /\ result = [err |-> <<>>, val |-> 38219]

\* set_emissivity called on a sensor that stored both writes.
EmissivitySet ==
    /\ pc = "returned" /\ call.op = "set_emissivity" /\ call.plan = NoFault
    /\ call.args[1] \in 5..100

\* read_emissivity returned the percentage of the word the register holds.
EmissivityRead ==
    /\ pc = "returned" /\ call.op = "read_emissivity" /\ call.plan = NoFault
    /\ result.err = <<>>

\* For every percent p in 5..100, set_emissivity(p) on a sensor that latches
\* writes 0x0000 then round(p*0x4000/100) to register 0x13 and nothing else,
\* and a read_emissivity() that follows returns p.
EmissivityRoundTrip ==
    /\ EmissivitySet =>
          /\ result.err = <<>>
          /\ WriteSeq = << <<_REG_EMISSIVITY, 0>>,
                           <<_REG_EMISSIVITY, Round(call.args[1] * 16384, 100)>> >>
          /\ mem[_REG_EMISSIVITY] = Round(call.args[1] * 16384, 100)
          /\ read_emissivity(Machine(NoFault), TRUE).err = <<>>
          /\ read_emissivity(Machine(NoFault), TRUE).val = call.args[1]
    /\ EmissivityRead =>
          \A p \in 5..100 :
              mem[_REG_EMISSIVITY] = Round(p * 16384, 100) => result.val = p

\* C12 as stated: the round trip above, with 95 written as 15564 (0x3CCC).
C12_RoundTripVia15564 ==
    /\ EmissivityRoundTrip
    /\ (EmissivitySet /\ call.args[1] = 95) =>
          WriteSeq = << <<_REG_EMISSIVITY, 0>>, <<_REG_EMISSIVITY, 15564>> >>

\* C12 amended: for every percent p in 5..100, set_emissivity(p) on a sensor
\* that latches writes exactly 0x0000 then round(p*0x4000/100) to register
\* 0x13, and a following read_emissivity() returns p; 95 is written as 15565
\* (0x3CCD, since 95*0x4000/100 = 15564.8) and read back as 95.
C12_RoundTrip ==
    /\ EmissivityRoundTrip
    /\ (EmissivitySet /\ call.args[1] = 95) =>
          WriteSeq = << <<_REG_EMISSIVITY, 0>>, <<_REG_EMISSIVITY, 15565>> >>

\* read_emissivity() returned 95 from the word set_emissivity(95) had stored.
C12_Witness ==
    /\ EmissivityRead /\ ncalls = 2
    /\ mem[_REG_EMISSIVITY] = 15565 /\ result.val = 95

\* The distance between two naturals.
Distance(a, b) == IF a >= b THEN a - b ELSE b - a

\* C13 as stated: for every raw x in 0..0x4000, round(100*x/0x4000) converted
\* back with round(percent*0x4000/100) differs from x by at most 1.
C13_RoundTripWithinOne ==
    EmissivityRead => Distance(EmissivityRaw(result.val), mem[_REG_EMISSIVITY]) <= 1

\* C13 amended: for every raw x in 0..0x4000, the percentage
\* round(100*x/0x4000) lies in 0..100 and converts back to a raw value that
\* differs from x by at most 82 (half of one percent step, 163.84 units); the
\* difference is 0 when x is round(p*0x4000/100) for an integer percent p.
C13_RoundTripWithinHalfStep ==
    EmissivityRead =>
        /\ result.val \in 0..100
        /\ result.val = Round(100 * mem[_REG_EMISSIVITY], 16384)
        /\ Distance(EmissivityRaw(result.val), mem[_REG_EMISSIVITY]) <= 82
        /\ (\E p \in 0..100 : mem[_REG_EMISSIVITY] = Round(p * 16384, 100))
              => EmissivityRaw(result.val) = mem[_REG_EMISSIVITY]

\* The word 16302 reads as 99 percent, which converts back to 16220: 82 away.
C13_Witness ==
    /\ EmissivityRead /\ mem[_REG_EMISSIVITY] = 16302
    /\ result.val = 99 /\ EmissivityRaw(result.val) = 16220

\* One shift of the MSB-first CRC-8 with polynomial x^8 + x^2 + x + 1: the
\* byte doubled modulo 256, with 0x07 XORed in when the bit shifted out is 1.
Crc8RefShift(c) == BitXor((2 * c) % 256, IF c >= 128 THEN 7 ELSE 0)

\* Eight shifts, for every byte they can start from.
Crc8RefTable ==
    [c \in 0..255 |->
        Crc8RefShift(Crc8RefShift(Crc8RefShift(Crc8RefShift(
        Crc8RefShift(Crc8RefShift(Crc8RefShift(Crc8RefShift(c))))))))]

\* One byte-step of that CRC: data XORed into the accumulator, eight shifts.
Crc8RefStep(acc, data) == Crc8RefTable[BitXor(acc, data)]

\* The reference CRC folded from accumulator acc over a byte sequence.
RECURSIVE Crc8RefFold(_, _)
Crc8RefFold(acc, bytes) ==
    IF bytes = <<>> THEN acc ELSE Crc8RefFold(Crc8RefStep(acc, Head(bytes)), Tail(bytes))

\* C14: for every accumulator and data byte in 0..255, _crc8 returns a byte
\* equal to one byte-step of the MSB-first CRC-8 with polynomial 0x07; the call
\* issues no transaction and changes neither self.buf nor the sensor, and the
\* PEC of every transaction made before or after such calls is the fold from
\* accumulator 0 over that transaction's own frame.
C14_Crc8Step ==
    [][/\ (pc' = "returned" /\ call'.op = "_crc8") =>
             /\ result'.err = <<>>
             /\ result'.val \in 0..255
             /\ result'.val = Crc8RefStep(call'.args[1], call'.args[2])
             /\ log' = <<>>
             /\ <<address, buf, mem>>' = <<address, buf, mem>>
       /\ (pc' = "returned" /\ call'.op = "write16") =>
             log'[1].bytes[3] = Crc8RefFold(0, <<address * 2, log'[1].reg,
                                                 log'[1].bytes[1], log'[1].bytes[2]>>)
       /\ (pc' = "returned" /\ call'.op = "read16") =>
             /\ result'.err = <<>>
             /\ log'[1].bytes[3] = Crc8RefFold(0, <<address * 2, log'[1].reg, address * 2 + 1,
                                                    log'[1].bytes[1], log'[1].bytes[2]>>)]_vars

\* _crc8(0xB6, 0x13) = 0x88 computed after a write16 had run its own fold: 0x88
\* is the PEC of the frame [0xB6, 0x13, 0x00, 0x00], folded here by hand.
C14_Witness ==
    /\ pc = "returned" /\ call.op = "_crc8" /\ ncalls = 2
    /\ call.args = <<182, 19>>
    /\ mem[_REG_EMISSIVITY] = 15565
    /\ result.val = Crc8RefStep(182, 19)
    /\ Crc8RefFold(0, <<49, 50, 51, 52, 53, 54, 55, 56, 57>>) = 244

\* C15: sleep() issues exactly one bus write, to the pseudo-register 0xC6,
\* whose payload is the single byte crc8 folded from 0 over [address<<1, 0xC6],
\* and stops the bus only after that write; no byte left by an earlier
\* read16/write16 is transmitted.
C15_SleepOneByte ==
    (pc = "returned" /\ call.op \in {"sleep", "noerrors_sleep"} /\ call.plan = NoFault) =>
        /\ Len(log) = 2
        /\ IsWrite(1) /\ log[1].addr = address /\ log[1].reg = _REG_SLEEP
        /\ log[1].bytes = <<Crc8Fold(0, <<address * 2, _REG_SLEEP>>)>>
        /\ log[2].op = "stop"
        /\ result.err = <<>>

\* The session steps of a wake or pwm_to_i2c call, in order.
Steps == [i \in Tx |-> log[i].op]

\* C16: wake(pin) and pwm_to_i2c(pin) drive the clock pin low, then start the
\* bus, and scan only after that; they raise WakeVerificationFailed exactly
\* when the instance address is in 0x08..0x77 and not in the scan result, and
\* return otherwise (address found, or address outside 0x08..0x77).
C16_WakeVerification ==
    (pc = "returned" /\ call.op \in {"wake", "pwm_to_i2c"}) =>
        /\ IsPrefix(<<"pin_low", "start">>, Steps)
        /\ log[1].reg = call.args[1]
        /\ IsPrefix(Steps, <<"pin_low", "start", "scan">>)
        /\ IF address \in 8..119
           THEN /\ Steps = <<"pin_low", "start", "scan">>
                /\ IF Present(address, log[3].bytes)
                   THEN result.err = <<>>
                   ELSE result.err = <<Exc("WakeVerificationFailed", address)>>
           ELSE result.err = <<>>

\* wake on an instance at 0x5B whose scan finds only 0x08, 0x3C and 0x77.
C16_Witness ==
    /\ pc = "returned" /\ call.op = "wake" /\ address = MLX90615_I2C_DEFAULT_ADDR
    /\ Steps = <<"pin_low", "start", "scan">> /\ log[3].bytes = <<8, 60, 119>>
    /\ result.err = <<Exc("WakeVerificationFailed", MLX90615_I2C_DEFAULT_ADDR)>>

\* The exceptions of the chain raised by the last call.
Chain == {result.err[k] : k \in DOMAIN result.err}

\* read_eeprom reads 0x10, 0x11, ... in ascending order, one read each, and
\* returns the 16 words in that order; a failed read is the last one made and
\* nothing is returned.
ReadEepromInOrder ==
    (pc = "returned" /\ call.op = "read_eeprom") =>
        /\ log # <<>> /\ Len(log) <= 16
        /\ \A i \in Tx : IsRead(i) /\ log[i].reg = 15 + i
        /\ \A i \in Tx : (~log[i].ok \/ (call.flags[1] /\ ~PecOk(i)))
                            => (i = Len(log) /\ result.err # <<>>)
        /\ IF result.err = <<>>
           THEN Len(log) = 16 /\ result.val = [i \in 1..16 |-> Word(i)]
           ELSE /\ result.val = 0
                /\ ~log[Len(log)].ok \/ (call.flags[1] /\ ~PecOk(Len(log)))

\* C17: read_eeprom() reads the 16 registers 0x10..0x1F in ascending order,
\* one read each, and returns the 16 words in that order; if the read of
\* register r fails, no register above r is read, no partial list is returned
\* and the error names r.
C17_ReadEepromIdentifiesRegister ==
    /\ ReadEepromInOrder
    /\ (pc = "returned" /\ call.op = "read_eeprom" /\ result.err # <<>>) =>
          \E e \in Chain : e.kind # "EepromReadFailed" /\ e.reg = log[Len(log)].reg

\* The config setters, and the bits of the config word each one owns.
ConfigSetters ==
    {"set_pwm_mode", "noerrors_set_pwm_mode", "noerrors_set_pwm_fast",
     "noerrors_set_pwm_object_temp", "noerrors_set_iir_filter"}

FieldMask(op) ==
    CASE op = "set_pwm_mode" -> 7
      [] op = "noerrors_set_pwm_mode" -> 1
      [] op = "noerrors_set_pwm_fast" -> 2
      [] op = "noerrors_set_pwm_object_temp" -> 4
      [] op = "noerrors_set_iir_filter" -> 28672

\* The field value the call's arguments ask for.
FieldBits(c) ==
    CASE c.op = "set_pwm_mode" ->
            (IF ~c.flags[1] THEN 1 ELSE 0) + (IF c.flags[2] THEN 2 ELSE 0)
              + (IF ~c.flags[3] THEN 4 ELSE 0)
      [] c.op = "noerrors_set_pwm_mode" -> IF ~c.flags[1] THEN 1 ELSE 0
      [] c.op = "noerrors_set_pwm_fast" -> IF c.flags[1] THEN 2 ELSE 0
      [] c.op = "noerrors_set_pwm_object_temp" -> IF ~c.flags[1] THEN 4 ELSE 0
      [] c.op = "noerrors_set_iir_filter" -> (c.args[1] % 8) * 4096

\* A config setter got as far as its program write.
ConfigProgrammed ==
    /\ pc = "returned" /\ call.op \in ConfigSetters
    /\ Len(WriteSeq) = 2

\* C18: a config setter programs the word it read at the start of the call
\* with only its own field changed: bits 0..2 for set_pwm_mode of the full
\* driver (bits 3..15 are those read), bit 0, bit 1, bit 2 and bits 12..14 for
\* set_pwm_mode, set_pwm_fast, set_pwm_object_temp and set_iir_filter of the
\* no-errors driver; the field gets the value the arguments ask for.
C18_UnrelatedBitsPreserved ==
    ConfigProgrammed =>
        /\ IsRead(1) /\ log[1].reg = _REG_CONFIG
        /\ WriteSeq[1] = <<_REG_CONFIG, 0>>
        /\ WriteSeq[2][1] = _REG_CONFIG
        /\ BitAnd(WriteSeq[2][2], 65535 - FieldMask(call.op))
              = BitAnd(Word(1), 65535 - FieldMask(call.op))
        /\ BitAnd(WriteSeq[2][2], FieldMask(call.op)) = FieldBits(call)

\* set_iir_filter(1) of the no-errors driver on a sensor whose config word is
\* 0xFFFF: 0x9FFF is programmed, bit 15 and bits 0..11 kept.
C18_Witness ==
    /\ ConfigProgrammed /\ call.op = "noerrors_set_iir_filter" /\ call.args = <<1>>
    /\ Word(1) = 65535 /\ WriteSeq[2][2] = 40959
    /\ mem[_REG_CONFIG] = 40959

\* The kinds of the exceptions of the chain raised by the last call.
Kinds == {result.err[k].kind : k \in DOMAIN result.err}

\* The write a failed transaction belongs to: the write itself, or the write
\* whose read-back it is.
WriteOf(i) == IF IsWrite(i) THEN i ELSE i - 1

\* What write16 raised for the failed step at i: the OSError of the bus, the
\* read-back error wrapping the read's own error, or the exception raised by
\* line 81 when the word read back differs.
Cause(i) ==
    IF IsWrite(i) THEN <<Exc("OSError", 0)>>
    ELSE IF ~log[i].ok
    THEN <<Exc("ReadAfterWriteFailed", log[i].reg), Exc("OSError", 0)>>
    ELSE IF ~PecOk(i)
    THEN <<Exc("ReadAfterWriteFailed", log[i].reg), Exc("ChecksumMismatch", log[i].reg)>>
    ELSE <<Exc("NameError", log[i].reg)>>

\* A setter call ended on a failed step of one of its writes.
WriteStepFailed ==
    /\ InSetter /\ log # <<>> /\ Failed(Len(log))
    /\ (IsWrite(Len(log)) \/ IsReadBack(Len(log)))

\* C19: in set_emissivity, set_i2c_address, set_pwm_mode and
\* set_pwm_tmin_trange a failure of an erase write (the write or its read-back)
\* raises the erase-phase error and a failure of a program write the
\* program-phase error, each followed in the chain by what write16 raised; the
\* chain of an erase failure holds no program-phase error and the reverse.
C19_PhaseErrors ==
    WriteStepFailed =>
        /\ Len(result.err) >= 2
        /\ Tail(result.err) = Cause(Len(log))
        /\ IF IsErase(WriteOf(Len(log)))
           THEN Head(result.err).kind = "ErasePhaseFailed"
                  /\ "ProgramPhaseFailed" \notin Kinds
           ELSE Head(result.err).kind = "ProgramPhaseFailed"
                  /\ "ErasePhaseFailed" \notin Kinds

\* set_pwm_tmin_trange erased both registers and programmed TMIN; the read-back
\* of TRANGE then arrived with a wrong PEC.
C19_Witness ==
    /\ WriteStepFailed /\ call.op = "set_pwm_tmin_trange"
    /\ Len(log) = 8 /\ log[8].ok /\ ~PecOk(8)
    /\ result.err = <<Exc("ProgramPhaseFailed", _REG_PWM_TMIN),
                      Exc("ReadAfterWriteFailed", _REG_PWM_TRANGE),
                      Exc("ChecksumMismatch", _REG_PWM_TRANGE)>>

\* The setters of the three drivers.
AllSetters ==
    Setters \cup ConfigSetters
      \cup {"noerrors_set_emissivity", "noerrors_set_i2c_address",
            "microbit_set_emissivity", "microbit_set_i2c_address"}

\* C20: in every driver variant a setter call that returns normally has made
\* its erase-then-program update: the write of 0x0000 to its register followed
\* by the program write to the same register; a call that did not write (a
\* percent outside 5..100, an address outside 0x08..0x77, a nonzero instance
\* address) ends with an error.
C20_NoSilentReturn ==
    (pc = "returned" /\ call.op \in AllSetters /\ result.err = <<>>) =>
        /\ Len(WriteSeq) = 2
        /\ WriteSeq[1][2] = 0
        /\ WriteSeq[1][1] = WriteSeq[2][1]


\* The PEC of a write is the one the write frame to bus address a calls for.
WritePecFor(i, a) ==
    log[i].bytes[3] = Crc8Fold(0, <<a * 2, log[i].reg, log[i].bytes[1], log[i].bytes[2]>>)

\* The PEC of a read response is the one the read frame from bus address a calls for.
ReadPecFor(i, a) ==
    log[i].bytes[3] = Crc8Fold(0, <<a * 2, log[i].reg, a * 2 + 1,
                                    log[i].bytes[1], log[i].bytes[2]>>)

\* Every transaction of the last call went to bus address a, every write with
\* the PEC of a frame to a, and a read answered with another PEC than that of
\* a frame from a ended the call with an error.
AllTransactionsAt(a) ==
    \A i \in Tx :
        /\ log[i].addr = a
        /\ IsWrite(i) => WritePecFor(i, a)
        /\ (IsRead(i) /\ log[i].ok /\ ~ReadPecFor(i, a)) => (i = Len(log) /\ result.err # <<>>)

\* The sensor holds a newly provisioned address in register 0x10.
Provisioned(addr) == mem[_REG_SLAVE_I2C_ADDRESS] = BitOr(13568, addr)

\* C21: no call changes the address of the instance, a successful
\* set_i2c_address(new_address) included, and every transaction and every PEC
\* of a setter call is made with that address: after provisioning, the
\* instance still addresses 0.
C21_AddressFixed ==
    /\ [][address' = address]_vars
    /\ [](InSetter => AllTransactionsAt(address))

\* set_i2c_address(0x08) succeeded on the instance built with address 0; the
\* set_emissivity call made next went to address 0.
C21_Witness ==
    /\ InSetter /\ call.op = "set_emissivity" /\ result.err = <<>>
    /\ Provisioned(8)
    /\ address = 0 /\ Len(log) >= 2 /\ AllTransactionsAt(0)


\* The sensor stored the write at i: the bus delivered it and the sensor took it.
Stored(i) ==
    IsWrite(i) /\ log[i].ok /\ ~(call.plan.at = i /\ call.plan.kind = "nolatch")

\* The write at j is the first write to the register of the write at i after it.
NextWriteTo(i, j) ==
    /\ j > i /\ IsWrite(j) /\ log[j].reg = log[i].reg
    /\ \A k \in (i + 1)..(j - 1) : ~(IsWrite(k) /\ log[k].reg = log[i].reg)

\* The erase at i was stored and the program write that follows it was not:
\* it was refused or not taken, or the call stopped before issuing it.
ErasedOnly(i) ==
    /\ IsErase(i) /\ Stored(i)
    /\ \A j \in Tx : NextWriteTo(i, j) => ~Stored(j)

WritesTo(register) == {i \in Tx : IsWrite(i) /\ log[i].reg = register}

\* A setter stands at one of its waits.
SetterWaits == pc = "waiting" /\ call.op \in Setters

\* C22: when a setter's erase is stored and its program write is not (refused,
\* not taken, or never issued because the call stopped in between), the
\* register holds 0x0000 when the call ends and the setter has issued no write
\* beyond the erase and the one program write; when the bus refuses the
\* program write the call raises the program-phase error.  For set_pwm_mode
\* the config bits it read are gone with the rest of the word.  At every wait
\* of a setter between a stored erase and the program write, where a call
\* that stops leaves the sensor, the register holds 0x0000 as well.
C22_ErasedNotRestored ==
    /\ InSetter =>
          \A i \in Tx :
              ErasedOnly(i) =>
                  /\ mem[log[i].reg] = 0
                  /\ Cardinality(WritesTo(log[i].reg)) <= 2
                  /\ \A j \in Tx :
                        (j > i /\ IsWrite(j) /\ log[j].reg = log[i].reg /\ ~log[j].ok)
                            => (j = Len(log) /\ result.err # <<>>
                                  /\ Head(result.err).kind = "ProgramPhaseFailed")
    /\ SetterWaits =>
          \A i \in Tx :
              ErasedOnly(i) =>
                  /\ mem[log[i].reg] = 0
                  /\ \A j \in Tx : log[j].ok

\* set_pwm_mode read the config word 0x1401, erased the register, read 0x0000
\* back, and the bus refused the program write: the register is left at
\* 0x0000, bits 3..15 of the word read included.
C22_Witness ==
    /\ InSetter /\ call.op = "set_pwm_mode" /\ ReadCheck
    /\ Len(log) = 4 /\ Word(1) = 5121
    /\ ErasedOnly(2) /\ IsWrite(4) /\ ~log[4].ok
    /\ mem[_REG_CONFIG] = 0
    /\ Head(result.err).kind = "ProgramPhaseFailed"


\* What the four config readers of the no-errors driver return on the sensor
\* as it is, over a bus that delivers.
PwmModeNow == noerrors_read_pwm_mode(Machine(NoFault)).val
PwmFastNow == noerrors_read_pwm_fast(Machine(NoFault)).val
PwmObjectTempNow == noerrors_read_pwm_object_temp(Machine(NoFault)).val
IirFilterNow == noerrors_read_iir_filter(Machine(NoFault)).val

\* A config setter of the no-errors driver returned, on a bus that delivered
\* and a sensor that stored.
ConfigWasSet(op) ==
    pc = "returned" /\ call.op = op /\ call.plan = NoFault /\ result.err = <<>>

\* A config reader of the no-errors driver returned a value.
ConfigWasRead(op) == pc = "returned" /\ call.op = op /\ result.err = <<>>

\* The fields of a config word: PWM enabled (bit 0 clear), fast PWM (bit 1
\* set), object temperature on PWM (bit 2 clear), IIR filter (bits 12..14).
PwmBit(w) == w % 2 = 0
FastBit(w) == (w \div 2) % 2 = 1
ObjectTempBit(w) == (w \div 4) % 2 = 0
IirBits(w) == (w \div 4096) % 8

\* Each reader returns its field of the config word the sensor holds.
ReadersDecode ==
    /\ PwmModeNow = PwmBit(mem[_REG_CONFIG])
    /\ PwmFastNow = FastBit(mem[_REG_CONFIG])
    /\ PwmObjectTempNow = ObjectTempBit(mem[_REG_CONFIG])
    /\ IirFilterNow = IirBits(mem[_REG_CONFIG])

\* The config setters of the no-errors driver.
NoErrorsConfigSetters ==
    {"noerrors_set_pwm_mode", "noerrors_set_pwm_fast", "noerrors_set_pwm_object_temp",
     "noerrors_set_iir_filter"}

\* The config word the sensor holds, and the one the last call read first.
ConfigNow == mem[_REG_CONFIG]
ConfigRead == Word(1)

\* A config setter that returned left field own of the config word at value,
\* and kept says the three other fields are those of the word it read.
SetsField(op, own, value, kept) == ConfigWasSet(op) => (own = value /\ kept)

\* The step starts a config setter: the call stands at its first wait, after
\* its read of the config register and before its erase.
ConfigSetterStarts ==
    pc = "idle" /\ pc' = "waiting" /\ call'.op \in NoErrorsConfigSetters /\ call'.plan = NoFault

\* C23: in the no-errors driver, on a sensor that stores what it is sent,
\* after set_pwm_mode(p) read_pwm_mode() returns p, after set_pwm_fast(f)
\* read_pwm_fast() returns f, after set_pwm_object_temp(o)
\* read_pwm_object_temp() returns o, after set_iir_filter(i) read_iir_filter()
\* returns i mod 8; each setter leaves what the other three readers return as
\* it was before the call: the word a setter reads first is the word the
\* sensor held when the call was made, and the three other fields of the word
\* it leaves are those of the word it read.
C23_ConfigRoundTrip ==
    /\ []ReadersDecode
    /\ [](/\ ConfigWasRead("noerrors_read_pwm_mode") => result.val = PwmModeNow
          /\ ConfigWasRead("noerrors_read_pwm_fast") => result.val = PwmFastNow
          /\ ConfigWasRead("noerrors_read_pwm_object_temp") => result.val = PwmObjectTempNow
          /\ ConfigWasRead("noerrors_read_iir_filter") => result.val = IirFilterNow)
    /\ [](/\ SetsField("noerrors_set_pwm_mode", PwmBit(ConfigNow), call.flags[1],
                       /\ FastBit(ConfigNow) = FastBit(ConfigRead)
                       /\ ObjectTempBit(ConfigNow) = ObjectTempBit(ConfigRead)
                       /\ IirBits(ConfigNow) = IirBits(ConfigRead))
          /\ SetsField("noerrors_set_pwm_fast", FastBit(ConfigNow), call.flags[1],
                       /\ PwmBit(ConfigNow) = PwmBit(ConfigRead)
                       /\ ObjectTempBit(ConfigNow) = ObjectTempBit(ConfigRead)
                       /\ IirBits(ConfigNow) = IirBits(ConfigRead))
          /\ SetsField("noerrors_set_pwm_object_temp", ObjectTempBit(ConfigNow), call.flags[1],
                       /\ PwmBit(ConfigNow) = PwmBit(ConfigRead)
                       /\ FastBit(ConfigNow) = FastBit(ConfigRead)
                       /\ IirBits(ConfigNow) = IirBits(ConfigRead))
          /\ SetsField("noerrors_set_iir_filter", IirBits(ConfigNow), call.args[1] % 8,
                       /\ PwmBit(ConfigNow) = PwmBit(ConfigRead)
                       /\ FastBit(ConfigNow) = FastBit(ConfigRead)
                       /\ ObjectTempBit(ConfigNow) = ObjectTempBit(ConfigRead)))
    /\ [][ConfigSetterStarts =>
             /\ Len(log') = 1 /\ log'[1].op = "read" /\ log'[1].reg = _REG_CONFIG
             /\ log'[1].bytes[1] + 256 * log'[1].bytes[2] = mem[_REG_CONFIG]
             /\ mem' = mem]_vars

\* set_iir_filter(8) was called on the sensor whose config word is 0xFFFF
\* (0x8FFF stored), and read_iir_filter() then returned 0.
C23_Witness ==
    /\ ConfigWasRead("noerrors_read_iir_filter") /\ result.val = 0
    /\ mem[_REG_CONFIG] = 36863
    /\ PwmModeNow = FALSE /\ PwmFastNow = TRUE /\ PwmObjectTempNow = FALSE


\* set_pwm_mode of the full driver returned.
PwmModeCalled == pc = "returned" /\ call.op = "set_pwm_mode"

\* What read16 raised for the failed read at i.
ReadCause(i) ==
    IF ~log[i].ok THEN Exc("OSError", 0) ELSE Exc("ChecksumMismatch", log[i].reg)

\* C24: set_pwm_mode of the full driver starts with a read of the config
\* register whose PEC is checked whatever eeprom_read_check is; when that read
\* is refused by the bus or answered with a wrong PEC, the call raises the
\* config-read error wrapping the cause and the read is its only transaction
\* (no erase, no program write); a call of that one transaction leaves the
\* sensor's registers as they were before it.
C24_ConfigReadFirst ==
    /\ [](PwmModeCalled =>
            /\ Len(log) >= 1 /\ IsRead(1) /\ log[1].reg = _REG_CONFIG
            /\ ReadFailed(1) =>
                  /\ Len(log) = 1
                  /\ result.err = <<Exc("ConfigReadFailed", _REG_CONFIG), ReadCause(1)>>
            /\ ~ReadFailed(1) => (result.err = <<>> \/ Head(result.err).kind # "ConfigReadFailed"))
    /\ [][(PwmModeCalled' /\ Len(log') = 1) => mem' = mem]_vars

\* set_pwm_mode(eeprom_read_check=False): the config word arrived with a wrong
\* PEC, the call failed after that one read and the register still holds 0x1401.
C24_Witness ==
    /\ PwmModeCalled /\ ~ReadCheck
    /\ Len(log) = 1 /\ log[1].ok /\ ~PecOk(1)
    /\ result.err = <<Exc("ConfigReadFailed", _REG_CONFIG), Exc("ChecksumMismatch", _REG_CONFIG)>>
    /\ mem[_REG_CONFIG] = 5121


\* What read_i2c_address() returns on the sensor as it is, over a bus that delivers.
I2cAddressNow == read_i2c_address(Machine(NoFault), TRUE).val

\* set_pwm_tmin_trange returned normally, on a bus that delivered and a sensor
\* that stored.
LimitsWereSet ==
    /\ pc = "returned" /\ call.op = "set_pwm_tmin_trange"
    /\ call.plan = NoFault /\ result.err = <<>>

\* C25: _REG_PWM_TMIN and _REG_SLAVE_I2C_ADDRESS are both register 0x10.  After
\* a successful set_pwm_tmin_trange(tmin, trange) on a sensor that stores what
\* it is sent, register 0x10 holds tmin and read_i2c_address() returns
\* tmin & 0x7F (0x5B for the default 0x355B), whatever address the register
\* held before; a read_i2c_address() call returns the low 7 bits of the word
\* stored; set_pwm_tmin_trange on an instance whose address is not 0 raises
\* the precondition error without a transaction.
C25_SharedRegister ==
    /\ _REG_PWM_TMIN = _REG_SLAVE_I2C_ADDRESS
    /\ LimitsWereSet =>
          /\ address = 0
          /\ mem[_REG_SLAVE_I2C_ADDRESS] = call.args[1]
          /\ mem[_REG_PWM_TRANGE] = call.args[2]
          /\ I2cAddressNow = call.args[1] % 128
          /\ call.args[1] = 13659 => I2cAddressNow = MLX90615_I2C_DEFAULT_ADDR
    /\ (pc = "returned" /\ call.op = "read_i2c_address" /\ result.err = <<>>
          /\ call.plan = NoFault) =>
          result.val = mem[_REG_SLAVE_I2C_ADDRESS] % 128
    /\ (pc = "returned" /\ call.op = "set_pwm_tmin_trange" /\ address # 0) =>
          /\ result.err = <<Exc("PreconditionFailed", _REG_PWM_TMIN)>>
          /\ log = <<>>

\* read_i2c_address() returned 0x34 on a sensor provisioned with one of the
\* addresses 0x08, 0x2A, 0x5B, 0x77: set_pwm_tmin_trange(0x12B4, 0x0100) was
\* called in between.
C25_Witness ==
    /\ pc = "returned" /\ call.op = "read_i2c_address" /\ result.err = <<>>
    /\ result.val = 52
    /\ mem[_REG_SLAVE_I2C_ADDRESS] = 4788 /\ mem[_REG_PWM_TRANGE] = 256
    /\ address = 0


\* _crc8 was called from outside the transaction layer.
Crc8Called == pc = "returned" /\ call.op = "_crc8"

\* The bytes the PEC of the transaction at i is folded over.
Frame(i) ==
    IF IsWrite(i)
    THEN <<log[i].addr * 2, log[i].reg, log[i].bytes[1], log[i].bytes[2]>>
    ELSE <<log[i].addr * 2, log[i].reg, log[i].addr * 2 + 1, log[i].bytes[1], log[i].bytes[2]>>

\* The byte sequences that differ from frame in exactly one byte.
OneByteOff(frame) ==
    {[frame EXCEPT ![k] = x] : k \in DOMAIN frame, x \in Bytes} \ {frame}

\* C26: _crc8 is injective in each argument with the other fixed: for every
\* accumulator the 256 data bytes give 256 distinct results (checked at the
\* calls _crc8(a, 0), one per accumulator), and for every data byte the 256
\* accumulators give 256 distinct results (checked at the calls _crc8(0, d));
\* a call's own result is told apart from that of every other data byte and
\* every other accumulator it is compared with.  Consequently no sequence that
\* differs in exactly one byte from the frame of a transaction folds to that
\* transaction's PEC.
C26_Crc8Injective ==
    /\ (Crc8Called /\ call.args[2] = 0) =>
          Cardinality({_crc8(call.args[1], d) : d \in Bytes}) = 256
    /\ (Crc8Called /\ call.args[1] = 0) =>
          Cardinality({_crc8(a, call.args[2]) : a \in Bytes}) = 256
    /\ Crc8Called =>
          /\ result.val # _crc8(call.args[1], (call.args[2] + 1) % 256)
          /\ result.val # _crc8((call.args[1] + 1) % 256, call.args[2])
          /\ result.val # _crc8(call.args[1], 255 - call.args[2])
          /\ result.val # _crc8(255 - call.args[1], call.args[2])
    /\ (pc = "returned" /\ call.op \in {"write16", "read16"}) =>
          \A i \in Tx :
              /\ Crc8Fold(0, Frame(i)) = log[i].bytes[3]
              /\ \A other \in OneByteOff(Frame(i)) : Crc8Fold(0, other) # log[i].bytes[3]

\* _crc8(0xFF, 0x00) = 0xF3 was returned, and no other data byte folded into
\* 0xFF gives 0xF3.
C26_Witness ==
    /\ Crc8Called /\ call.args = <<255, 0>> /\ result.val = 243
    /\ \A d \in Bytes : d # 0 => _crc8(255, d) # 243

====
